---- MODULE Spec2Model ----
(***************************************************************************)
(* Transport ticketing system: the Back-Office ledger (ticket creation,    *)
(* validation, report log), the Gate validator (online validation with     *)
(* offline fallback) and the ticket codec they share.                      *)
(*                                                                         *)
(* Time is counted in hours.  A ticket id "TKT-<counter>-<timestamp>" is   *)
(* the pair <<counter, timestamp>>; the empty id is <<>>.  A creation date *)
(* text is a record saying whether it matches %Y-%m-%dT%H:%M:%S and, when  *)
(* it does, the instant it denotes.                                        *)
(***************************************************************************)
EXTENDS Integers, Sequences, FiniteSets, TLC

\* ------------------------------------------------------------------ bounds

\* validation requests delivered to the gate
MaxRequests == 2
\* create requests sent to the ledger
MaxCreates == 2
\* HTTP worker threads of the ledger that serve create requests
NumThreads == 2
\* steps of the clock
MaxTicks == 1
\* requests, create and validation together, the clients send
MaxOps == 2
\* restarts of the ledger
MaxRestarts == 1
\* reports posted to the ledger directly
MaxReports == 1
\* sale requests the vending machine consumes
MaxSales == 3
\* validation requests the gate consumes on a long run
MaxRun == 102
\* reports posted to the ledger by several gates
MaxPosts == 2
\* validation requests the gate consumes while the ledger is silent
MaxSilentRun == 10
\* validation requests the gate consumes on a run with faulty requests
MaxFaultRun == 15
\* the last reading of the clock handed to the expiry test, in hours
MaxInstant == 55

\* --------------------------------------------------------------- constants

HoursPerDay == 24
ReportEvery == 10
HistoryCap == 100
ReportRecent == 10
\* the largest int
IntMax == 2147483647

Threads == 1..NumThreads

\* ------------------------------------------------------------ ticket codec

AllKeys == {"ticketId", "creationDate", "validityDays", "lineNumber"}

BadDate == [parsable |-> FALSE, at |-> 0]

\* Ticket::getCurrentDateISO: the text of the instant t
getCurrentDateISO(t) == [parsable |-> TRUE, at |-> t]

NoTicket ==
    [ticketId |-> <<>>, creationDate |-> BadDate, validityDays |-> 0, lineNumber |-> 0]

\* Ticket::Ticket(id, validityDays, lineNumber), constructed at instant t
NewTicket(id, validityDays, lineNumber, t) ==
    [ticketId |-> id, creationDate |-> getCurrentDateISO(t),
     validityDays |-> validityDays, lineNumber |-> lineNumber]

\* isExpired with the comparison now >= validUntil
isExpired_nonStrict(ticket, t) ==
    IF ~ticket.creationDate.parsable
    THEN TRUE
    ELSE t >= ticket.creationDate.at + HoursPerDay * ticket.validityDays

\* isExpired that grants a day more
isExpired_dayOfGrace(ticket, t) ==
    IF ~ticket.creationDate.parsable
    THEN TRUE
    ELSE t > ticket.creationDate.at + HoursPerDay * (ticket.validityDays + 1)

\* 24 * validityDays_ on 32-bit ints: 24 v mod 2^32 is 8 (3 v mod 2^29), read
\* as a signed number
hoursOfDays(validityDays) ==
    LET low == ((HoursPerDay \div 8) * (validityDays % (2 ^ 29))) % (2 ^ 29)
    IN  8 * (IF low >= 2 ^ 28 THEN low - 2 ^ 29 ELSE low)

\* the instants system_clock::time_point holds: 64-bit nanoseconds, which
\* are TimePointSpan hours, half of them before 1970; the instant 0 of the model
\* is EpochHour hours after 1970
TimePointSpan == 5124096
EpochHour == 473352

\* time_point + hours: the sum leaves the 64 bits at the top and comes back
\* at the bottom
timePointPlus(instant, hours) ==
    LET sum == instant + (hours % TimePointSpan) + TimePointSpan \div 2
    IN  (sum % TimePointSpan) - TimePointSpan \div 2

\* Ticket::isExpired at instant t; a date that does not parse throws inside
\* getCreationTimePoint and the catch answers true
isExpired(ticket, t) ==
    IF ~ticket.creationDate.parsable
    THEN TRUE
    ELSE EpochHour + t
             > timePointPlus(EpochHour + ticket.creationDate.at,
                             hoursOfDays(ticket.validityDays))

\* the arithmetic of isExpired leaves its types: 24 * validityDays_ does not
\* fit an int, or the sum does not fit the time_point
overflows(ticket) ==
    /\ ticket.creationDate.parsable
    /\ \/ EpochHour + ticket.creationDate.at > TimePointSpan \div 2 - 1
       \/ EpochHour + ticket.creationDate.at < 0 - TimePointSpan \div 2
       \/ ticket.validityDays > IntMax \div HoursPerDay
       \/ ticket.validityDays < (0 - IntMax - 1) \div HoursPerDay
       \/ HoursPerDay * ticket.validityDays
              > TimePointSpan \div 2 - 1 - EpochHour - ticket.creationDate.at
       \/ HoursPerDay * ticket.validityDays
              < 0 - TimePointSpan \div 2 - EpochHour - ticket.creationDate.at

\* what a call of isExpired can answer: signed overflow is undefined, and the
\* wrapped sum of isExpired is one of the answers
isExpiredOutcomes(ticket, t) ==
    IF overflows(ticket) THEN BOOLEAN ELSE {isExpired(ticket, t)}

\* Ticket::isValid, given the answer of its call of isExpired
isValidGiven(ticket, expired) ==
    ticket.ticketId # <<>> /\ ticket.validityDays > 0 /\ ~expired

\* Ticket::isValid at instant t
Ticket_isValid(ticket, t) == isValidGiven(ticket, isExpired(ticket, t))

\* to_json / Ticket::toJson: the field map with all four keys
toJson(ticket) ==
    [wellFormed |-> TRUE, keys |-> AllKeys,
     ticketId |-> ticket.ticketId, creationDate |-> ticket.creationDate,
     validityDays |-> ticket.validityDays, lineNumber |-> ticket.lineNumber]

\* a text that is no JSON document (the empty text among them)
NoText ==
    [wellFormed |-> FALSE, keys |-> {},
     ticketId |-> <<>>, creationDate |-> BadDate, validityDays |-> 0, lineNumber |-> 0]

\* from_json / Ticket::fromJson: json::parse throws on a text that is no JSON,
\* j.at(key) throws on a missing key
fromJson(text) ==
    IF ~text.wellFormed \/ ~(AllKeys \subseteq text.keys)
    THEN [ok |-> FALSE, ticket |-> NoTicket]
    ELSE [ok |-> TRUE,
          ticket |-> [ticketId |-> text.ticketId, creationDate |-> text.creationDate,
                      validityDays |-> text.validityDays, lineNumber |-> text.lineNumber]]

\* Ticket::toBase64: a token whose symbols are all of the alphabet
toBase64(ticket) == [alphabetOk |-> TRUE, text |-> toJson(ticket)]

\* Ticket::base64Decode: decoding stops at the first symbol outside the
\* alphabet; a token that starts with one decodes to the empty text
base64Decode(token) == IF token.alphabetOk THEN token.text ELSE NoText

\* fromBase64 that hands back an empty ticket where the text does not decode
fromBase64_neverFails(token) ==
    IF fromJson(base64Decode(token)).ok
    THEN fromJson(base64Decode(token))
    ELSE [ok |-> TRUE, ticket |-> NoTicket]

\* Ticket::fromBase64
fromBase64(token) == fromJson(base64Decode(token))

\* a token that starts with a symbol outside the alphabet ("!!!not-base64!!!")
BadToken == [alphabetOk |-> FALSE, text |-> NoText]

\* ------------------------------------------------- numbers written as text

\* a text is a sequence of bytes; these are the bytes of the characters the
\* code names
Ascii ==
    [minus |-> 45, plus |-> 43, space |-> 32, zero |-> 48, nine |-> 57, quote |-> 34,
     backslash |-> 92, slash |-> 47, lbrace |-> 123, rbrace |-> 125, colon |-> 58,
     comma |-> 44, equals |-> 61, bang |-> 33, tab |-> 9, lf |-> 10, cr |-> 13,
     upperA |-> 65, lowerA |-> 97, lowerN |-> 110, lowerU |-> 117, lowerL |-> 108,
     upperT |-> 84, upperZ |-> 90]


RECURSIVE digitsOf(_)
digitsOf(n) ==
    IF n < 10 THEN <<Ascii.zero + n>>
    ELSE Append(digitsOf(n \div 10), Ascii.zero + (n % 10))

\* std::to_string and operator<< on an int: the decimal text
to_string(n) == IF n < 0 THEN <<Ascii.minus>> \o digitsOf(-n) ELSE digitsOf(n)

IsDigit(b) == Ascii.zero <= b /\ b <= Ascii.nine

\* the digits at the head of text, folded into acc; the value -1 says that the
\* number leaves the range of int
RECURSIVE leadingNumber(_, _, _)
leadingNumber(text, acc, count) ==
    IF text = <<>> \/ ~IsDigit(Head(text))
    THEN [value |-> acc, count |-> count]
    ELSE LET d == Head(text) - Ascii.zero
         IN  IF acc = -1 \/ acc > (IntMax - d) \div 10
             THEN leadingNumber(Tail(text), -1, count + 1)
             ELSE leadingNumber(Tail(text), 10 * acc + d, count + 1)

RECURSIVE skipSpaces(_)
skipSpaces(text) ==
    IF text # <<>> /\ Head(text) = Ascii.space THEN skipSpaces(Tail(text)) ELSE text

\* std::stoi: blanks, an optional sign, then the longest run of digits; what
\* follows the digits is ignored; no digit or a number out of range throws
stoi(text) ==
    LET body == skipSpaces(text)
        signed == body # <<>> /\ Head(body) \in {Ascii.minus, Ascii.plus}
        num == leadingNumber(IF signed THEN Tail(body) ELSE body, 0, 0)
    IN  IF num.count = 0 \/ num.value = -1
        THEN [ok |-> FALSE, value |-> 0]
        ELSE [ok |-> TRUE,
              value |-> IF signed /\ Head(body) = Ascii.minus THEN -num.value ELSE num.value]

\* the text "TKT-<counter>-<timestamp>" of an id, the empty text of the empty id
idText(id) ==
    IF id = <<>> THEN <<>>
    ELSE <<84, 75, 84, Ascii.minus>> \o to_string(id[1]) \o <<Ascii.minus>> \o to_string(id[2])

\* id.substr(id.find('-') + 1); a text without '-' has no such part
RECURSIVE afterFirstDash(_)
afterFirstDash(text) ==
    IF text = <<>> THEN [found |-> FALSE, rest |-> <<>>]
    ELSE IF Head(text) = Ascii.minus THEN [found |-> TRUE, rest |-> Tail(text)]
    ELSE afterFirstDash(Tail(text))

\* ------------------------------------------------------ codec, byte by byte

\* base64_chars, indexed from 0
base64_chars ==
    [i \in 0..63 |->
        IF i < 26 THEN Ascii.upperA + i
        ELSE IF i < 52 THEN Ascii.lowerA + (i - 26)
        ELSE IF i < 62 THEN Ascii.zero + (i - 52)
        ELSE IF i = 62 THEN Ascii.plus ELSE Ascii.slash]

\* val << k on a 32-bit int: the bits pushed out at the top are lost
shl(val, k) ==
    LET u == val % (2 ^ (32 - k))
    IN  IF u >= 2 ^ (31 - k) THEN (u - 2 ^ (32 - k)) * (2 ^ k) ELSE u * (2 ^ k)

\* val >> k on a 32-bit int
shr(val, k) == val \div (2 ^ k)

\* the inner while of base64Encode: a symbol per 6 bits that are ready
RECURSIVE encodeReady(_, _, _)
encodeReady(val, valb, output) ==
    IF valb >= 0
    THEN encodeReady(val, valb - 6, Append(output, base64_chars[shr(val, valb) % 64]))
    ELSE [valb |-> valb, output |-> output]

\* the body of the for loop of base64Encode on byte c
encodeByte(st, c) ==
    LET v == shl(st.val, 8) + c
        r == encodeReady(v, st.valb + 8, st.output)
    IN  [val |-> v, valb |-> r.valb, output |-> r.output]

\* the for loop of base64Encode over the bytes lo..hi, in their order: the
\* first half of the range, then the second on the state the first has left
\* (between two bytes valb is -6, -4 or -2)
RECURSIVE encodeRange(_, _, _, _)
encodeRange(input, lo, hi, st) ==
    IF lo > hi THEN st
    ELSE IF lo = hi THEN encodeByte(st, input[lo])
    ELSE LET half == encodeRange(input, lo, (lo + hi) \div 2, st)
         IN  CASE half.valb \in {-6, -4, -2} ->
                     encodeRange(input, (lo + hi) \div 2 + 1, hi, half)

encodeLoop(input) ==
    encodeRange(input, 1, Len(input), [val |-> 0, valb |-> -6, output |-> <<>>])

\* the padding loop of base64Encode
RECURSIVE padded(_)
padded(output) ==
    IF Len(output) % 4 # 0 THEN padded(Append(output, Ascii.equals)) ELSE output

\* base64Encode that leaves the padding out
base64Encode_unpadded(input) ==
    LET st == encodeLoop(input)
    IN  IF st.valb > -6
        THEN Append(st.output, base64_chars[shr(shl(st.val, 8), st.valb + 8) % 64])
        ELSE st.output

\* Ticket::base64Encode
base64Encode(input) ==
    LET st == encodeLoop(input)
    IN  padded(IF st.valb > -6
               THEN Append(st.output, base64_chars[shr(shl(st.val, 8), st.valb + 8) % 64])
               ELSE st.output)

\* the decoding table T of base64Decode: -1 for a byte that is no symbol
T(c) == IF \E i \in 0..63 : base64_chars[i] = c
        THEN CHOOSE i \in 0..63 : base64_chars[i] = c
        ELSE -1

\* the loop body without its break: a byte that is no symbol is passed over
decodeByte_skips(st, c) ==
    IF T(c) = -1 THEN st
    ELSE LET v == shl(st.val, 6) + T(c)
         IN  IF st.valb + 6 >= 0
             THEN [val |-> v, valb |-> st.valb + 6 - 8, broke |-> FALSE,
                   output |-> Append(st.output, shr(v, st.valb + 6) % 256)]
             ELSE [val |-> v, valb |-> st.valb + 6, broke |-> FALSE, output |-> st.output]

\* the body of the for loop of base64Decode on byte c; the break at a byte
\* that is no symbol, '=' included, ends the loop
decodeByte(st, c) ==
    IF st.broke \/ T(c) = -1 THEN [st EXCEPT !.broke = TRUE]
    ELSE LET v == shl(st.val, 6) + T(c)
         IN  IF st.valb + 6 >= 0
             THEN [val |-> v, valb |-> st.valb + 6 - 8, broke |-> FALSE,
                   output |-> Append(st.output, shr(v, st.valb + 6) % 256)]
             ELSE [val |-> v, valb |-> st.valb + 6, broke |-> FALSE, output |-> st.output]

\* the for loop of base64Decode over the bytes lo..hi, in their order: the
\* first half of the range, then, unless the loop has ended, the second
RECURSIVE decodeRange(_, _, _, _)
decodeRange(input, lo, hi, st) ==
    IF lo > hi THEN st
    ELSE IF lo = hi THEN decodeByte(st, input[lo])
    ELSE LET half == decodeRange(input, lo, (lo + hi) \div 2, st)
         IN  IF half.broke THEN half
             ELSE decodeRange(input, (lo + hi) \div 2 + 1, hi, half)

\* Ticket::base64Decode, byte by byte
base64DecodeText(input) ==
    decodeRange(input, 1, Len(input),
                [val |-> 0, valb |-> -8, broke |-> FALSE, output |-> <<>>]).output

\* the four keys, as texts
KeyTicketId == <<116, 105, 99, 107, 101, 116, 73, 100>>
KeyCreationDate == <<99, 114, 101, 97, 116, 105, 111, 110, 68, 97, 116, 101>>
KeyValidityDays == <<118, 97, 108, 105, 100, 105, 116, 121, 68, 97, 121, 115>>
KeyLineNumber == <<108, 105, 110, 101, 78, 117, 109, 98, 101, 114>>

\* a JSON value: a string, an integer, null or an object with its members
JString(text) == [type |-> "string", text |-> text, num |-> 0, members |-> <<>>]
JNumber(n) == [type |-> "number", text |-> <<>>, num |-> n, members |-> <<>>]
JNull == [type |-> "null", text |-> <<>>, num |-> 0, members |-> <<>>]
\* a number with a fraction, of which num keeps the whole part, and a boolean
JFloat(whole) == [type |-> "float", text |-> <<>>, num |-> whole, members |-> <<>>]
JBoolean(b) == [type |-> "boolean", text |-> <<>>, num |-> IF b THEN 1 ELSE 0, members |-> <<>>]

\* int x = j: the conversion of a json value to an int. Whole numbers, numbers
\* with a fraction (cut to their whole part) and booleans convert; every other
\* type throws type_error
get_int(j) ==
    IF j.type \in {"number", "float", "boolean"}
    THEN [ok |-> TRUE, value |-> j.num]
    ELSE [ok |-> FALSE, value |-> 0]
JObject(members) == [type |-> "object", text |-> <<>>, num |-> 0, members |-> members]

\* to_json: the object of a ticket; its members stand in the order of the
\* keys, as the std::map behind a json object keeps them
to_json(t) ==
    JObject(<<[key |-> KeyCreationDate, value |-> JString(t.creationDate)],
              [key |-> KeyLineNumber, value |-> JNumber(t.lineNumber)],
              [key |-> KeyTicketId, value |-> JString(t.ticketId)],
              [key |-> KeyValidityDays, value |-> JNumber(t.validityDays)]>>)

\* a string as dump writes it: quoted, '"' and '\' escaped
RECURSIVE escaped(_)
escaped(text) ==
    IF text = <<>> THEN <<>>
    ELSE (IF Head(text) \in {Ascii.quote, Ascii.backslash}
          THEN <<Ascii.backslash, Head(text)>> ELSE <<Head(text)>>) \o escaped(Tail(text))

\* a string written between quotes as it is
dumpString_unescaped(text) == <<Ascii.quote>> \o text \o <<Ascii.quote>>

dumpString(text) == <<Ascii.quote>> \o escaped(text) \o <<Ascii.quote>>

dumpValue(v) ==
    IF v.type = "string" THEN dumpString(v.text)
    ELSE IF v.type = "number" THEN to_string(v.num)
    ELSE <<Ascii.lowerN, Ascii.lowerU, Ascii.lowerL, Ascii.lowerL>>

RECURSIVE dumpMembers(_)
dumpMembers(members) ==
    IF members = <<>> THEN <<>>
    ELSE dumpString(Head(members).key) \o <<Ascii.colon>> \o dumpValue(Head(members).value)
             \o (IF Len(members) > 1 THEN <<Ascii.comma>> ELSE <<>>)
             \o dumpMembers(Tail(members))

\* json::dump of an object of strings, integers and nulls
dump(j) == <<Ascii.lbrace>> \o dumpMembers(j.members) \o <<Ascii.rbrace>>

\* Ticket::toJson, byte by byte
toJsonText(t) == dump(to_json(t))

\* Ticket::toBase64, byte by byte
toBase64Text(t) == base64Encode(toJsonText(t))

\* json::parse.  The parser reads the texts of the model: objects whose values
\* are strings with the escapes \" \\ \/, integers and null; blanks between
\* the tokens; whatever else it meets is a parse error
ParseError == [ok |-> FALSE, value |-> JNull, next |-> 0]

RECURSIVE skipWs(_, _)
skipWs(text, pos) ==
    IF pos <= Len(text) /\ text[pos] \in {Ascii.space, Ascii.tab, Ascii.lf, Ascii.cr}
    THEN skipWs(text, pos + 1) ELSE pos

\* the string whose opening quote stands before pos
RECURSIVE scanString(_, _, _)
scanString(text, pos, acc) ==
    IF pos > Len(text) \/ text[pos] < Ascii.space \/ text[pos] > 126 THEN ParseError
    ELSE IF text[pos] = Ascii.quote THEN [ok |-> TRUE, value |-> JString(acc), next |-> pos + 1]
    ELSE IF text[pos] = Ascii.backslash
         THEN IF pos + 1 <= Len(text)
                    /\ text[pos + 1] \in {Ascii.quote, Ascii.backslash, Ascii.slash}
              THEN scanString(text, pos + 2, Append(acc, text[pos + 1]))
              ELSE ParseError
    ELSE scanString(text, pos + 1, Append(acc, text[pos]))

\* an integer at pos: '-' needs a digit behind it, a leading 0 stands alone
scanNumber(text, pos) ==
    LET neg == pos <= Len(text) /\ text[pos] = Ascii.minus
        from == IF neg THEN pos + 1 ELSE pos
        zero == from <= Len(text) /\ text[from] = Ascii.zero
        num == IF zero THEN [value |-> 0, count |-> 1]
               ELSE leadingNumber(SubSeq(text, from, Len(text)), 0, 0)
    IN  IF num.count = 0 \/ num.value = -1 THEN ParseError
        ELSE [ok |-> TRUE, value |-> JNumber(IF neg THEN -num.value ELSE num.value),
              next |-> from + num.count]

scanNull(text, pos) ==
    IF pos + 3 <= Len(text)
          /\ SubSeq(text, pos, pos + 3) = <<Ascii.lowerN, Ascii.lowerU, Ascii.lowerL, Ascii.lowerL>>
    THEN [ok |-> TRUE, value |-> JNull, next |-> pos + 4]
    ELSE ParseError

scanValue(text, pos) ==
    IF pos > Len(text) THEN ParseError
    ELSE IF text[pos] = Ascii.quote THEN scanString(text, pos + 1, <<>>)
    ELSE IF text[pos] = Ascii.minus \/ IsDigit(text[pos]) THEN scanNumber(text, pos)
    ELSE IF text[pos] = Ascii.lowerN THEN scanNull(text, pos)
    ELSE ParseError

\* the members of an object from pos on, which stands at the key of a member
RECURSIVE scanMembers(_, _, _)
scanMembers(text, pos, acc) ==
    IF pos > Len(text) \/ text[pos] # Ascii.quote THEN ParseError
    ELSE LET k == scanString(text, pos + 1, <<>>)
             c == skipWs(text, k.next)
             v == scanValue(text, skipWs(text, c + 1))
             e == skipWs(text, v.next)
             got == Append(acc, [key |-> k.value.text, value |-> v.value])
         IN  IF ~k.ok \/ c > Len(text) \/ text[c] # Ascii.colon \/ ~v.ok \/ e > Len(text)
             THEN ParseError
             ELSE IF text[e] = Ascii.rbrace
                  THEN [ok |-> TRUE, value |-> JObject(got), next |-> e + 1]
             ELSE IF text[e] = Ascii.comma THEN scanMembers(text, skipWs(text, e + 1), got)
             ELSE ParseError

scanObject(text, pos) ==
    LET m == skipWs(text, pos + 1)
    IN  IF m <= Len(text) /\ text[m] = Ascii.rbrace
        THEN [ok |-> TRUE, value |-> JObject(<<>>), next |-> m + 1]
        ELSE scanMembers(text, m, <<>>)

parse(text) ==
    LET start == skipWs(text, 1)
        v == IF start <= Len(text) /\ text[start] = Ascii.lbrace
             THEN scanObject(text, start) ELSE scanValue(text, start)
    IN  IF v.ok /\ skipWs(text, v.next) = Len(text) + 1
        THEN [ok |-> TRUE, value |-> v.value]
        ELSE [ok |-> FALSE, value |-> JNull]

\* j.at(key): the member with that key, the last one when the text repeats
\* it; no such member, or a j that is no object, throws
at(j, key) ==
    LET hits == {i \in 1..Len(j.members) : j.members[i].key = key}
    IN  IF j.type # "object" \/ hits = {} THEN [ok |-> FALSE, value |-> JNull]
        ELSE [ok |-> TRUE, value |-> j.members[CHOOSE i \in hits : \A h \in hits : h <= i].value]

\* the ticket of the default constructor, with an empty date text
NoTicketText == [ticketId |-> <<>>, creationDate |-> <<>>, validityDays |-> 0, lineNumber |-> 0]

\* from_json that fills the fields it finds and leaves the others at their defaults
from_json_lenient(j) ==
    LET pick(key, type, default) ==
            IF at(j, key).ok /\ at(j, key).value.type = type
            THEN (IF type = "string" THEN at(j, key).value.text ELSE at(j, key).value.num)
            ELSE default
    IN  [ok |-> j.type = "object",
         ticket |-> [ticketId |-> pick(KeyTicketId, "string", <<>>),
                     creationDate |-> pick(KeyCreationDate, "string", <<>>),
                     validityDays |-> pick(KeyValidityDays, "number", 0),
                     lineNumber |-> pick(KeyLineNumber, "number", 0)]]

\* from_json: at() throws on a missing key, get_to on a value of another type
from_json(j) ==
    LET id == at(j, KeyTicketId)
        date == at(j, KeyCreationDate)
        days == at(j, KeyValidityDays)
        line == at(j, KeyLineNumber)
    IN  IF id.ok /\ date.ok /\ days.ok /\ line.ok
              /\ id.value.type = "string" /\ date.value.type = "string"
              /\ days.value.type = "number" /\ line.value.type = "number"
        THEN [ok |-> TRUE,
              ticket |-> [ticketId |-> id.value.text, creationDate |-> date.value.text,
                          validityDays |-> days.value.num, lineNumber |-> line.value.num]]
        ELSE [ok |-> FALSE, ticket |-> NoTicketText]

\* Ticket::fromJson, byte by byte: json::parse, then get<Ticket>
fromJsonText(text) ==
    IF parse(text).ok THEN from_json(parse(text).value)
    ELSE [ok |-> FALSE, ticket |-> NoTicketText]

\* Ticket::fromBase64, byte by byte
fromBase64Text(token) == fromJsonText(base64DecodeText(token))

\* ------------------------------------------------------------------- state

VARIABLES
    now,                \* the clock, in hours
    ticks,              \* steps the clock has taken
    \* Back-Office ledger
    tickets,            \* tickets_: the registry
    ticketCounter,      \* ticketCounter_
    stockFile,          \* the rows of the CSV file behind stockFile_
    reports,            \* reports_
    cthread,            \* the create handler running on each HTTP worker thread
    creates,            \* create requests received so far
    creplies,           \* HTTP answers of create, in the order they were sent
    vcall,              \* the validate call of the gate that is in flight
    \* Gate validator
    totalProcessed,     \* totalProcessed_
    validCount,         \* validCount_
    invalidCount,       \* invalidCount_
    validationHistory,  \* validationHistory_
    gpc,                \* where the consume loop of the gate stands
    cur,                \* locals of the request the gate is handling
    received,           \* messages consumed from the validation-request topic
    responses,          \* messages published on ticket/validation/response
    trail,              \* per consumed message, what its handling did
    \* Back-Office ledger, across restarts
    startup,            \* how often the ledger was started again, and what the last start loaded
    listed,             \* the body of the last answer of GET /api/tickets
    \* Ticket codec
    probe,              \* a ticket or token handed to the codec, and what came back
    \* Ticket vending machine
    tvm,                \* where the consume loop of the vending machine stands, and its locals
    saleTrail,          \* per consumed sale request, what its handling did
    saleResponses,      \* messages published on ticket/sale/response
    \* Gate validator, on a long run
    plan,               \* the requests and answers the gate is going to get
    flushes             \* the reports sendReport has posted, and how each ended

ledgerVars == <<tickets, ticketCounter, stockFile, reports, cthread, creates, creplies>>
gateVars == <<totalProcessed, validCount, invalidCount, validationHistory, gpc, cur,
              received, responses, trail>>
tvmVars == <<tvm, saleTrail, saleResponses>>
runVars == <<plan, flushes>>
auxVars == <<startup, listed, probe, tvmVars, runVars>>
vars == <<now, ticks, ledgerVars, vcall, gateVars, auxVars>>

\* ------------------------------------------------------------------ ledger

IdleThread ==
    [pc |-> "idle", validityDays |-> 0, lineNumber |-> 0, loaded |-> 0, ticket |-> NoTicket,
     call |-> 0]

\* bodies of POST /api/tickets/create
CreateDays == {0, 1}
CreateBodies ==
    [parses : {TRUE}, hasFields : {TRUE}, validityDays : CreateDays, lineNumber : {1}]
        \cup {[parses |-> FALSE, hasFields |-> FALSE, validityDays |-> 0, lineNumber |-> 0],
              [parses |-> TRUE, hasFields |-> FALSE, validityDays |-> 0, lineNumber |-> 0]}

\* saveTickets that writes the registry without its last ticket
saveTickets_withoutLast(regs) ==
    [i \in 1..(Len(regs) - 1) |->
        [id |-> regs[i].ticketId, date |-> regs[i].creationDate,
         validity |-> to_string(regs[i].validityDays),
         lineNum |-> to_string(regs[i].lineNumber)]]

\* BackOfficeService::saveTickets: the file is rewritten from the registry, a
\* row per ticket with the two numbers in decimal
saveTickets(regs) ==
    [i \in 1..Len(regs) |->
        [id |-> regs[i].ticketId, date |-> regs[i].creationDate,
         validity |-> to_string(regs[i].validityDays),
         lineNum |-> to_string(regs[i].lineNumber)]]

\* handleTicketCreation that draws the id before it reads the body
CreateStart_idFirst(th, body) ==
    /\ creates < MaxCreates
    /\ creates + received < MaxOps
    /\ cthread[th].pc = "idle"
    /\ \A other \in Threads : other < th => cthread[other].pc # "idle"
    /\ creates' = creates + 1
    /\ IF body.parses /\ body.hasFields
       THEN /\ cthread' = [cthread EXCEPT ![th] =
                    [pc |-> "store", validityDays |-> body.validityDays,
                     lineNumber |-> body.lineNumber, loaded |-> ticketCounter,
                     ticket |-> NoTicket, call |-> creates']]
            /\ UNCHANGED <<creplies, ticketCounter>>
       ELSE /\ creplies' = Append(creplies,
                    [status |-> 400, ticketId |-> <<>>, ticketBase64 |-> BadToken,
                     call |-> creates'])
            /\ ticketCounter' = ticketCounter + 1
            /\ UNCHANGED cthread
    /\ UNCHANGED <<now, ticks, tickets, stockFile, reports, vcall, gateVars, auxVars>>

\* handleTicketCreation up to the read of ticketCounter_ in generateTicketId;
\* a body that does not parse or lacks a field throws and is answered 400.
\* The worker threads are interchangeable: the request goes to the first idle one
CreateStart(th, body) ==
    /\ creates < MaxCreates
    /\ creates + received < MaxOps
    /\ cthread[th].pc = "idle"
    /\ \A other \in Threads : other < th => cthread[other].pc # "idle"
    /\ creates' = creates + 1
    /\ IF body.parses /\ body.hasFields
       THEN /\ cthread' = [cthread EXCEPT ![th] =
                    [pc |-> "store", validityDays |-> body.validityDays,
                     lineNumber |-> body.lineNumber, loaded |-> ticketCounter,
                     ticket |-> NoTicket, call |-> creates']]
            /\ UNCHANGED creplies
       ELSE /\ creplies' = Append(creplies,
                    [status |-> 400, ticketId |-> <<>>, ticketBase64 |-> BadToken,
                     call |-> creates'])
            /\ UNCHANGED cthread
    /\ UNCHANGED <<now, ticks, tickets, ticketCounter, stockFile, reports, vcall, gateVars,
                   auxVars>>

\* generateTicketId: the write half of ++ticketCounter_ (no lock is held), the
\* id, and the Ticket constructed from it
generateTicketId(loaded, t) == <<loaded + 1, t>>

CreateStoreCounter(th) ==
    /\ cthread[th].pc = "store"
    /\ ticketCounter' = cthread[th].loaded + 1
    /\ cthread' = [cthread EXCEPT ![th].pc = "insert",
                       ![th].ticket = NewTicket(generateTicketId(cthread[th].loaded, now),
                                                cthread[th].validityDays,
                                                cthread[th].lineNumber, now)]
    /\ UNCHANGED <<now, ticks, tickets, stockFile, reports, creates, creplies, vcall, gateVars,
                   auxVars>>

\* push_back that puts the ticket in front
push_back_front(regs, ticket) == <<ticket>> \o regs

\* tickets_.push_back
push_back(regs, ticket) == Append(regs, ticket)

\* the block under ticketMutex_: push_back and saveTickets
CreateInsert(th) ==
    /\ cthread[th].pc = "insert"
    /\ tickets' = push_back(tickets, cthread[th].ticket)
    /\ stockFile' = saveTickets(tickets')
    /\ cthread' = [cthread EXCEPT ![th].pc = "respond"]
    /\ UNCHANGED <<now, ticks, ticketCounter, reports, creates, creplies, vcall, gateVars,
                   auxVars>>

\* the 200 answer with the ticket id and its token
CreateRespond(th) ==
    /\ cthread[th].pc = "respond"
    /\ creplies' = Append(creplies,
            [status |-> 200, ticketId |-> cthread[th].ticket.ticketId,
             ticketBase64 |-> toBase64(cthread[th].ticket), call |-> cthread[th].call])
    /\ cthread' = [cthread EXCEPT ![th] = IdleThread]
    /\ UNCHANGED <<now, ticks, tickets, ticketCounter, stockFile, reports, creates, vcall,
                   gateVars, auxVars>>

\* no response: Post returned a null result
NoRes ==
    [status |-> 0, valid |-> FALSE, message |-> "none", ticketId |-> <<>>,
     lineNumber |-> 0, evalAt |-> 0, regLen |-> 0]

\* the lookup replaced by a test that the id is not empty
TicketExists_anyId(regs, id) == id # <<>>

\* the lookup of handleTicketValidation under ticketMutex_
TicketExists(regs, id) == \E i \in 1..Len(regs) : regs[i].ticketId = id

\* handleTicketValidation with the expiry tested before the existence
handleTicketValidation_expiryFirst(token, simulatedFailure, regs, t) ==
    LET d == fromBase64(token)
        exists == \E i \in 1..Len(regs) : regs[i].ticketId = d.ticket.ticketId
        isValid == exists /\ ~isExpired(d.ticket, t)
        message == IF isExpired(d.ticket, t) THEN "Ticket expired"
                   ELSE IF ~exists THEN "Ticket not found in database"
                   ELSE "Ticket is valid"
    IN  IF simulatedFailure \/ ~d.ok
        THEN [status |-> 500, valid |-> FALSE, message |-> "none", ticketId |-> <<>>,
              lineNumber |-> 0, evalAt |-> t, regLen |-> Len(regs)]
        ELSE [status |-> 200, valid |-> isValid, message |-> message,
              ticketId |-> d.ticket.ticketId, lineNumber |-> d.ticket.lineNumber,
              evalAt |-> t, regLen |-> Len(regs)]

\* BackOfficeService::handleTicketValidation at instant t on registry regs:
\* the simulated failure and a token that does not decode are answered 500
handleTicketValidation(token, simulatedFailure, regs, t) ==
    LET d == fromBase64(token)
        exists == TicketExists(regs, d.ticket.ticketId)
        isValid == exists /\ ~isExpired(d.ticket, t)
        message == IF ~exists THEN "Ticket not found in database"
                   ELSE IF isExpired(d.ticket, t) THEN "Ticket expired"
                   ELSE "Ticket is valid"
    IN  IF simulatedFailure \/ ~d.ok
        THEN [NoRes EXCEPT !.status = 500, !.evalAt = t, !.regLen = Len(regs)]
        ELSE [status |-> 200, valid |-> isValid, message |-> message,
              ticketId |-> d.ticket.ticketId, lineNumber |-> d.ticket.lineNumber,
              evalAt |-> t, regLen |-> Len(regs)]

NoCall == [state |-> "none", token |-> BadToken, sentAt |-> 0, res |-> NoRes]

\* the ledger serves the validate call in flight
LedgerValidate(simulatedFailure) ==
    /\ vcall.state = "sent"
    /\ vcall' = [vcall EXCEPT !.state = "answered",
                     !.res = handleTicketValidation(vcall.token, simulatedFailure,
                                                    tickets, now)]
    /\ UNCHANGED <<now, ticks, ledgerVars, gateVars, auxVars>>

\* ------------------------------------------------------------------- clock

ClockSteps == {1, HoursPerDay}

Tick(step) ==
    /\ ticks < MaxTicks
    /\ now' = now + step
    /\ ticks' = ticks + 1
    /\ UNCHANGED <<ledgerVars, vcall, gateVars, auxVars>>

\* -------------------------------------------------------------------- gate

GateId == "001"

\* tickets nobody was sold: an id the ledger never issues, the empty id, a
\* negative validity on a date still to come, a date that does not parse, and
\* the id of the first ticket a ledger started at hour 0 issues with a longer
\* validity than the ledger gives
ForgedTickets ==
    {[ticketId |-> <<9, 0>>, creationDate |-> getCurrentDateISO(0),
      validityDays |-> 1, lineNumber |-> 1],
     [ticketId |-> <<>>, creationDate |-> getCurrentDateISO(0),
      validityDays |-> 1, lineNumber |-> 1],
     [ticketId |-> <<9, 0>>, creationDate |-> getCurrentDateISO(200),
      validityDays |-> -1, lineNumber |-> 1],
     [ticketId |-> <<9, 0>>, creationDate |-> BadDate,
      validityDays |-> 1, lineNumber |-> 1],
     [ticketId |-> <<1, 0>>, creationDate |-> getCurrentDateISO(0),
      validityDays |-> 2, lineNumber |-> 1]}

\* a token of the alphabet whose text lacks the lineNumber key
PartialToken ==
    [alphabetOk |-> TRUE,
     text |-> [toJson(NoTicket) EXCEPT !.keys = AllKeys \ {"lineNumber"}]]

\* the tokens create has handed out so far
HandedTokens == {creplies[i].ticketBase64 : i \in {j \in 1..Len(creplies) : creplies[j].status = 200}}

\* messages of the validation-request topic: a payload that is no JSON, one
\* without the ticketBase64 field, and one per token
Payloads ==
    {[parses |-> FALSE, hasToken |-> FALSE, ticketBase64 |-> BadToken],
     [parses |-> TRUE, hasToken |-> FALSE, ticketBase64 |-> BadToken]}
        \cup [parses : {TRUE}, hasToken : {TRUE},
              ticketBase64 : HandedTokens \cup {toBase64(t) : t \in ForgedTickets}
                                 \cup {BadToken, PartialToken}]

NoCur == [req |-> 0, ticketBase64 |-> BadToken, ticket |-> NoTicket]

NoTrail ==
    [decoded |-> FALSE, onlineAttempts |-> 0, onlineRes |-> "none", ledgerValid |-> FALSE,
     offlineRuns |-> 0, ticket |-> NoTicket, decidedAt |-> 0]

\* validateOnline that tests only whether a response came, not its status
validateOnline_anyAnswer(res) ==
    IF res.status = 0
    THEN [ok |-> FALSE, valid |-> FALSE, message |-> "none"]
    ELSE [ok |-> TRUE, valid |-> res.valid, message |-> res.message]

\* validateOnline that takes a 200 answer for a valid ticket without reading it
validateOnline_assumesValid(res) ==
    IF res.status # 200
    THEN [ok |-> FALSE, valid |-> FALSE, message |-> "none"]
    ELSE [ok |-> TRUE, valid |-> TRUE, message |-> res.message]

\* GateService::validateOnline once Post has returned res (status 0: no
\* response, a transport error or a timeout)
validateOnline(res) ==
    IF res.status # 200
    THEN [ok |-> FALSE, valid |-> FALSE, message |-> "none"]
    ELSE [ok |-> TRUE, valid |-> res.valid, message |-> res.message]

\* validateOffline without the negation
validateOffline_notNegated(ticket, t) == isExpired(ticket, t)

\* GateService::validateOffline at instant t
validateOffline(ticket, t) == ~isExpired(ticket, t)

\* the gate decision with the two actions exchanged
GateAction_inverted(valid) == IF valid THEN "CLOSED" ELSE "OPEN"

\* the gate decision of handleValidationRequest
GateAction(valid) == IF valid THEN "OPEN" ELSE "CLOSED"

\* the record recordValidation appends, and the cut to the last 100
ValidationRecord(ticketId, t, valid, mode) ==
    [ticketId |-> ticketId, timestamp |-> t, valid |-> valid, validationMode |-> mode]

\* recordValidation that drops the newest record when the history is full
PushRecord_keepsOldest(history, record) ==
    IF Len(history) >= HistoryCap THEN history ELSE Append(history, record)

\* recordValidation on the history: push_back, then erase(begin()) when more
\* than 100 records are held
PushRecord(history, record) ==
    LET h == Append(history, record)
    IN  IF Len(h) > HistoryCap THEN Tail(h) ELSE h

\* the report with the records in the order of the history
GateReport_oldestFirst(t, total, nValid, nInvalid, history) ==
    [gateId |-> GateId, timestamp |-> t, totalProcessed |-> total,
     validCount |-> nValid, invalidCount |-> nInvalid,
     recent |-> [i \in 1..(IF Len(history) < ReportRecent THEN Len(history) ELSE ReportRecent)
                    |-> history[i]]]

\* the report sendReport builds: the counters and the last 10 records, newest first
GateReport(t, total, nValid, nInvalid, history) ==
    [gateId |-> GateId, timestamp |-> t, totalProcessed |-> total,
     validCount |-> nValid, invalidCount |-> nInvalid,
     recent |-> [i \in 1..(IF Len(history) < ReportRecent THEN Len(history) ELSE ReportRecent)
                    |-> history[Len(history) + 1 - i]]]

\* handleValidationRequest up to the Post of validateOnline: the payload is
\* parsed and the token decoded; an exception ends the handling in the catch
GateReceive(payload) ==
    /\ gpc = "idle"
    /\ received < MaxRequests
    /\ creates + received < MaxOps
    /\ received' = received + 1
    /\ LET d == IF payload.parses /\ payload.hasToken
                THEN fromBase64(payload.ticketBase64)
                ELSE [ok |-> FALSE, ticket |-> NoTicket]
       IN  IF d.ok
           THEN /\ gpc' = "online"
                /\ cur' = [req |-> received', ticketBase64 |-> payload.ticketBase64,
                           ticket |-> d.ticket]
                /\ vcall' = [state |-> "sent", token |-> payload.ticketBase64,
                             sentAt |-> now, res |-> NoRes]
                /\ trail' = Append(trail, [NoTrail EXCEPT !.decoded = TRUE,
                                               !.onlineAttempts = 1,
                                               !.ticket = d.ticket])
           ELSE /\ trail' = Append(trail, NoTrail)
                /\ UNCHANGED <<gpc, cur, vcall>>
    /\ UNCHANGED <<now, ticks, ledgerVars, totalProcessed, validCount, invalidCount,
                   validationHistory, responses, auxVars>>

\* handleValidationRequest from the return of validateOnline's Post to the
\* publication of the response
FinishValidation(res) ==
    LET online == validateOnline(res)
        valid == IF online.ok THEN online.valid ELSE validateOffline(cur.ticket, now)
        validationMode == IF online.ok THEN "online" ELSE "offline"
        message == IF online.ok THEN online.message
                   ELSE IF valid THEN "Valid (offline check - expiry only)"
                   ELSE "Expired (offline check)"
        reportDue == (totalProcessed + 1) % ReportEvery = 0
    IN  /\ totalProcessed' = totalProcessed + 1
        /\ validCount' = IF valid THEN validCount + 1 ELSE validCount
        /\ invalidCount' = IF valid THEN invalidCount ELSE invalidCount + 1
        /\ validationHistory' =
               PushRecord(validationHistory,
                          ValidationRecord(cur.ticket.ticketId, now, valid, validationMode))
        /\ \E delivered \in (IF reportDue THEN BOOLEAN ELSE {FALSE}) :
               reports' = IF delivered
                          THEN Append(reports, GateReport(now, totalProcessed', validCount',
                                                          invalidCount', validationHistory'))
                          ELSE reports
        /\ responses' = Append(responses,
               [req |-> cur.req, gateId |-> GateId, ticketId |-> cur.ticket.ticketId,
                valid |-> valid, gateAction |-> GateAction(valid),
                validationMode |-> validationMode, message |-> message])
        /\ trail' = [trail EXCEPT ![cur.req].onlineRes =
                                      IF res.status = 0 THEN "transport"
                                      ELSE IF res.status = 200 THEN "s200" ELSE "s500",
                                  ![cur.req].ledgerValid = res.valid,
                                  ![cur.req].offlineRuns = IF online.ok THEN 0 ELSE 1,
                                  ![cur.req].decidedAt = now]
        /\ gpc' = "idle"
        /\ cur' = NoCur
        /\ vcall' = NoCall
        /\ UNCHANGED <<now, ticks, tickets, ticketCounter, stockFile, cthread, creates,
                       creplies, received, auxVars>>

\* the ledger has answered the validate call
GateOnlineAnswered ==
    /\ gpc = "online"
    /\ vcall.state = "answered"
    /\ FinishValidation(vcall.res)

\* the validate call ends without a response: the ledger cannot be reached or
\* does not answer within the timeouts
GateOnlineUnavailable ==
    /\ gpc = "online"
    /\ vcall.state = "sent"
    /\ FinishValidation(NoRes)

\* -------------------------------------------- ledger: restart, list, report

\* the Ticket loadTickets constructs from a row at instant t: the constructor
\* stamps the current date and setCreationDate puts the date of the row
loadRow_keepsStartDate(row, t) ==
    NewTicket(row.id, stoi(row.validity).value, stoi(row.lineNum).value, t)

loadRow(row, t) ==
    [NewTicket(row.id, stoi(row.validity).value, stoi(row.lineNum).value, t)
        EXCEPT !.creationDate = row.date]

\* std::stoi throws on no row of the file that has an id
Loadable(file) ==
    \A i \in 1..Len(file) :
        file[i].id # <<>> => stoi(file[i].validity).ok /\ stoi(file[i].lineNum).ok

\* the registry after loadTickets: a ticket per row that has an id, in file order
RECURSIVE loadTickets(_, _)
loadTickets(file, t) ==
    IF file = <<>> THEN <<>>
    ELSE (IF Head(file).id = <<>> THEN <<>> ELSE <<loadRow(Head(file), t)>>)
             \o loadTickets(Tail(file), t)

\* loadTickets that leaves ticketCounter_ at 0
seedCounter_unseeded(file) == 0

\* ticketCounter_ after loadTickets: the largest number read behind the first
\* '-' of an id, 0 when there is none
RECURSIVE seedCounter(_)
seedCounter(file) ==
    IF file = <<>> THEN 0
    ELSE LET before == seedCounter(SubSeq(file, 1, Len(file) - 1))
             suffix == afterFirstDash(idText(file[Len(file)].id))
             num == stoi(suffix.rest)
         IN  IF suffix.found /\ num.ok /\ num.value > before THEN num.value ELSE before

NoStartup == [restarts |-> 0, loaded |-> <<>>]

\* the ledger process ends and is started again: the handlers in flight are
\* gone with it, the constructor sets ticketCounter_ to 0 and calls loadTickets,
\* reports_ starts empty
Restart ==
    /\ startup.restarts < MaxRestarts
    /\ Loadable(stockFile)
    /\ tickets' = loadTickets(stockFile, now)
    /\ ticketCounter' = seedCounter(stockFile)
    /\ reports' = <<>>
    /\ cthread' = [th \in Threads |-> IdleThread]
    /\ startup' = [restarts |-> startup.restarts + 1, loaded |-> tickets']
    /\ UNCHANGED <<now, ticks, stockFile, creates, creplies, vcall, gateVars, listed, probe,
                   tvmVars, runVars>>

\* tokens a client sends to POST /api/tickets/validate: those create handed
\* out and the token of a ticket the ledger never issued
ClientTokens == HandedTokens \cup {toBase64(NewTicket(<<9, 0>>, 1, 1, 0))}

\* a client other than the gate posts a token to /api/tickets/validate
ClientValidate(token) ==
    /\ gpc = "idle"
    /\ vcall.state # "sent"
    /\ vcall' = [state |-> "sent", token |-> token, sentAt |-> now, res |-> NoRes]
    /\ UNCHANGED <<now, ticks, ledgerVars, gateVars, auxVars>>

\* the array GET /api/tickets answers with
listTickets(regs) == [i \in 1..Len(regs) |-> toJson(regs[i])]

\* the handler of GET /api/tickets, under ticketMutex_
ListTickets ==
    /\ listed' = listTickets(tickets)
    /\ UNCHANGED <<now, ticks, ledgerVars, vcall, gateVars, startup, probe, tvmVars, runVars>>

\* handleReport: the body is appended to reports_
handleReport(body) ==
    /\ Len(reports) < MaxReports
    /\ reports' = Append(reports, body)
    /\ UNCHANGED <<now, ticks, tickets, ticketCounter, stockFile, cthread, creates, creplies,
                   vcall, gateVars, auxVars>>

\* ------------------------------------------- ledger: reports of many gates

\* the gates that post reports
Gates == {"001", "002"}

\* the bodies gate g posts as its k-th report: a report of its counters, and
\* a body whose counters make no sense
ReportBodies(g, k) ==
    {[GateReport(now, ReportEvery * k, ReportEvery * k, 0, <<>>) EXCEPT !.gateId = g],
     [GateReport(now, ReportEvery * k, ReportEvery * k, 0, <<>>) EXCEPT !.gateId = g,
                                                                        !.invalidCount = 0 - 1]}

\* what is left of an entry written while another thread wrote the vector
TornReport == [GateReport(0, 0, 0, 0, <<>>) EXCEPT !.gateId = "torn"]

\* the worker threads that run handleReport
Reporting == {th \in Threads : cthread[th].pc \in {"reportStore", "reportRespond"}}

\* the posts gate g has made
PostsOf(g) ==
    Cardinality({i \in 1..Len(flushes) : flushes[i].gate = g})
        + Cardinality({th \in Reporting : cthread[th].gate = g})

\* handleReport up to the read of the end of reports_ in push_back: no lock
\* is taken.  A gate posts its next report when its last Post has returned
ReportStart(th, g, body) ==
    /\ Len(flushes) + Cardinality(Reporting) < MaxPosts
    /\ cthread[th].pc = "idle"
    /\ \A other \in Threads : other < th => cthread[other].pc # "idle"
    /\ \A other \in Reporting : cthread[other].gate # g
    /\ body \in ReportBodies(g, PostsOf(g) + 1)
    /\ cthread' = [cthread EXCEPT ![th] =
            [pc |-> "reportStore", validityDays |-> 0, lineNumber |-> 0,
             loaded |-> Len(reports), ticket |-> NoTicket, call |-> 0, gate |-> g,
             body |-> body]]
    /\ UNCHANGED <<now, ticks, tickets, ticketCounter, stockFile, reports, creates, creplies,
                   vcall, gateVars, auxVars>>

\* what reports_ may hold after push_back(body) by a thread that read the end
\* at loaded: the body appended when no other thread wrote in between; when one
\* did, the two push_back calls race on the vector, and the body is appended,
\* or written over the entry of the other thread, or a torn entry is left
push_back_unlocked(log, loaded, body) ==
    IF Len(log) = loaded
    THEN {Append(log, body)}
    ELSE {Append(log, body),
          [log EXCEPT ![loaded + 1] = body],
          Append(log, TornReport)}

\* the write half of reports_.push_back(req.body)
ReportStore(th) ==
    /\ cthread[th].pc = "reportStore"
    /\ reports' \in push_back_unlocked(reports, cthread[th].loaded, cthread[th].body)
    /\ cthread' = [cthread EXCEPT ![th].pc = "reportRespond"]
    /\ UNCHANGED <<now, ticks, tickets, ticketCounter, stockFile, creates, creplies, vcall,
                   gateVars, auxVars>>

\* the 200 answer {success: true}; the gate's Post returns
ReportRespond(th) ==
    /\ cthread[th].pc = "reportRespond"
    /\ flushes' = Append(flushes, [gate |-> cthread[th].gate, report |-> cthread[th].body,
                                   outcome |-> "delivered"])
    /\ cthread' = [cthread EXCEPT ![th] = IdleThread]
    /\ UNCHANGED <<now, ticks, tickets, ticketCounter, stockFile, reports, creates, creplies,
                   vcall, gateVars, startup, listed, probe, tvmVars, plan>>

\* no plan: the gate is not on a long run
NoPlan == [name |-> "none"]

\* ------------------------------------------------- the gate, on a long run

\* what the gate meets with a request: a payload that is no JSON; a fresh
\* ticket while the ledger answers; a fresh ticket while the ledger cannot be
\* reached; a ticket two days old while the ledger cannot be reached
RunCycles ==
    {<<"offline">>,
     <<"online", "offline">>,
     <<"offline", "expired", "online">>,
     <<"garbage", "offline", "online", "expired">>}

\* how the Post of sendReport ends: the ledger stores the report and answers
\* 200; no connection; an answer other than 200; the ledger stores the report
\* and the answer does not come in time
FlushCycles ==
    {<<"delivered">>, <<"unreachable">>, <<"refused">>,
     <<"delivered", "unreachable", "refused", "timeout">>}

\* the traffic of a long run: the requests and the ends of the reports repeat
\* in a cycle
Plans ==
    [name : {"run"}, length : {MaxRun}, requests : RunCycles, flushOutcomes : FlushCycles]

\* the traffic of a run during which the ledger answers nothing: it is not
\* reached, or it takes the report and stays silent
SilentPlans ==
    [name : {"run"}, length : {MaxSilentRun},
     requests : {<<"offline">>, <<"offline", "expired">>},
     flushOutcomes : {<<"unreachable">>, <<"timeout">>}]

PlannedKind(n) == plan.requests[((n - 1) % Len(plan.requests)) + 1]

PlannedOutcome(k) == plan.flushOutcomes[((k - 1) % Len(plan.flushOutcomes)) + 1]

\* the ticket of the n-th request of a run: every request shows a ticket of
\* its own, never sold by this ledger
RunTicket(n, kind) ==
    IF kind = "expired"
    THEN NewTicket(<<9, n>>, 1, 1, 0 - 2 * HoursPerDay)
    ELSE IF kind = "baddate"
    THEN [NewTicket(<<9, n>>, 1, 1, 0) EXCEPT !.creationDate = BadDate]
    ELSE NewTicket(<<9, n>>, 1, 1, 0)

RunPayload(n, kind) ==
    IF kind = "garbage"
    THEN [parses |-> FALSE, hasToken |-> FALSE, ticketBase64 |-> BadToken]
    ELSE IF kind = "badtoken"
    THEN [parses |-> TRUE, hasToken |-> TRUE, ticketBase64 |-> BadToken]
    ELSE IF kind = "partial"
    THEN [parses |-> TRUE, hasToken |-> TRUE, ticketBase64 |-> PartialToken]
    ELSE [parses |-> TRUE, hasToken |-> TRUE, ticketBase64 |-> toBase64(RunTicket(n, kind))]

\* the traffic of a run with faulty requests between sound ones: payloads
\* that are no JSON, tokens that do not decode, dates that do not parse, and
\* requests that find the ledger out of reach
FaultPlans ==
    [name : {"run"}, length : {MaxFaultRun},
     requests : {<<"garbage", "online", "badtoken", "offline", "baddate", "online">>,
                 <<"offline", "badtoken", "offline", "partial", "expired", "offline">>},
     flushOutcomes : {<<"unreachable">>}]

\* a catch that lets the exception leave the consume loop
afterCatch_leavesLoop == "stopped"

\* where the consume loop stands after the catch of handleValidationRequest:
\* the handler returns and the loop consumes the next message
afterCatch == "idle"

\* the test of handleValidationRequest on the counter, shifted by one request
ReportDue_oneEarly(total) == (total + 1) % ReportEvery = 0

\* the test of handleValidationRequest after recordValidation:
\* totalProcessed_ % 10 == 0
ReportDue(total) == total % ReportEvery = 0

\* handleValidationRequest up to the Post of validateOnline, on a long run
\* consumeMessages that hands each message to a handler of its own and goes
\* on consuming while that handler is at its report or its publication
atConsume_detached(pc) == pc \in {"idle", "report", "publish"}

\* the loop of consumeMessages stands at consume_message: the call of
\* handleValidationRequest for the message before has returned
atConsume(pc) == pc = "idle"

RunReceive ==
    /\ plan.name = "run"
    /\ atConsume(gpc)
    /\ received < plan.length
    /\ received' = received + 1
    /\ LET payload == RunPayload(received', PlannedKind(received'))
           d == IF payload.parses /\ payload.hasToken
                THEN fromBase64(payload.ticketBase64)
                ELSE [ok |-> FALSE, ticket |-> NoTicket]
       IN  IF d.ok
           THEN /\ gpc' = "online"
                /\ cur' = [req |-> received', ticketBase64 |-> payload.ticketBase64,
                           ticket |-> d.ticket]
                /\ vcall' = [state |-> "sent", token |-> payload.ticketBase64,
                             sentAt |-> now, res |-> NoRes]
                /\ trail' = Append(trail, [NoTrail EXCEPT !.decoded = TRUE,
                                               !.onlineAttempts = 1,
                                               !.ticket = d.ticket])
           ELSE /\ trail' = Append(trail, NoTrail)
                /\ gpc' = afterCatch
                /\ UNCHANGED <<cur, vcall>>
    /\ UNCHANGED <<now, ticks, ledgerVars, totalProcessed, validCount, invalidCount,
                   validationHistory, responses, auxVars>>

\* the ledger serves the validate call of a request that finds it reachable
RunLedgerValidate ==
    /\ plan.name = "run"
    /\ gpc = "online"
    /\ PlannedKind(cur.req) = "online"
    /\ LedgerValidate(FALSE)

\* recordValidation that counts an invalid decision on both sides
countValidation_bothSides(counts, valid) ==
    [total |-> counts.total + 1, nValid |-> counts.nValid + 1,
     nInvalid |-> IF valid THEN counts.nInvalid ELSE counts.nInvalid + 1]

\* recordValidation on the counters: totalProcessed_++, then validCount_++ or
\* invalidCount_++
countValidation(counts, valid) ==
    [total |-> counts.total + 1,
     nValid |-> IF valid THEN counts.nValid + 1 ELSE counts.nValid,
     nInvalid |-> IF valid THEN counts.nInvalid ELSE counts.nInvalid + 1]

\* handleValidationRequest from the return of validateOnline's Post to the
\* test on the counter: the decision, recordValidation, and the call of
\* sendReport when the counter is a multiple of 10
RunDecide ==
    /\ plan.name = "run"
    /\ gpc = "online"
    /\ \/ vcall.state = "answered"
       \/ vcall.state = "sent" /\ PlannedKind(cur.req) # "online"
    /\ LET res == IF vcall.state = "answered" THEN vcall.res ELSE NoRes
           online == validateOnline(res)
           valid == IF online.ok THEN online.valid ELSE validateOffline(cur.ticket, now)
           validationMode == IF online.ok THEN "online" ELSE "offline"
           message == IF online.ok THEN online.message
                      ELSE IF valid THEN "Valid (offline check - expiry only)"
                      ELSE "Expired (offline check)"
           counted == countValidation([total |-> totalProcessed, nValid |-> validCount,
                                       nInvalid |-> invalidCount], valid)
       IN  /\ totalProcessed' = counted.total
           /\ validCount' = counted.nValid
           /\ invalidCount' = counted.nInvalid
           /\ validationHistory' =
                  PushRecord(validationHistory,
                             ValidationRecord(cur.ticket.ticketId, now, valid,
                                              validationMode))
           /\ cur' = [req |-> cur.req, ticketBase64 |-> cur.ticketBase64,
                      ticket |-> cur.ticket, valid |-> valid,
                      validationMode |-> validationMode, message |-> message]
           /\ trail' = [trail EXCEPT ![cur.req].onlineRes =
                                         IF res.status = 0 THEN "transport"
                                         ELSE IF res.status = 200 THEN "s200" ELSE "s500",
                                     ![cur.req].ledgerValid = res.valid,
                                     ![cur.req].offlineRuns = IF online.ok THEN 0 ELSE 1,
                                     ![cur.req].decidedAt = now]
           /\ gpc' = IF ReportDue(totalProcessed') THEN "report" ELSE "publish"
    /\ vcall' = NoCall
    /\ UNCHANGED <<now, ticks, ledgerVars, received, responses, auxVars>>

\* sendReport that lets the failure of its Post leave handleValidationRequest
sendReport_failureLeaves(outcome) ==
    LET body == GateReport(now, totalProcessed, validCount, invalidCount, validationHistory)
    IN  /\ flushes' = Append(flushes, [req |-> cur.req, report |-> body, outcome |-> outcome])
        /\ reports' = IF outcome \in {"delivered", "timeout"}
                      THEN Append(reports, body) ELSE reports
        /\ gpc' = IF outcome = "delivered" THEN "publish" ELSE "idle"
        /\ cur' = IF outcome = "delivered" THEN cur ELSE NoCur
        /\ UNCHANGED <<now, ticks, tickets, ticketCounter, stockFile, cthread, creates,
                       creplies, vcall, totalProcessed, validCount, invalidCount,
                       validationHistory, received, responses, trail, startup, listed,
                       probe, tvmVars, plan>>

\* sendReport, called from handleValidationRequest: the report is built from
\* the counters and the history and posted; the call returns when the Post has
\* ended, whatever its end
sendReport(outcome) ==
    LET body == GateReport(now, totalProcessed, validCount, invalidCount, validationHistory)
    IN  /\ flushes' = Append(flushes, [req |-> cur.req, report |-> body, outcome |-> outcome])
        /\ reports' = IF outcome \in {"delivered", "timeout"}
                      THEN Append(reports, body) ELSE reports
        /\ gpc' = "publish"
        /\ UNCHANGED <<now, ticks, tickets, ticketCounter, stockFile, cthread, creates,
                       creplies, vcall, totalProcessed, validCount, invalidCount,
                       validationHistory, cur, received, responses, trail, startup, listed,
                       probe, tvmVars, plan>>

\* the Post of sendReport ends
RunReportDone ==
    /\ plan.name = "run"
    /\ gpc = "report"
    /\ sendReport(PlannedOutcome(Len(flushes) + 1))

\* handleValidationRequest from the gate action to publishResponse
RunPublish ==
    /\ plan.name = "run"
    /\ gpc = "publish"
    /\ responses' = Append(responses,
           [req |-> cur.req, gateId |-> GateId, ticketId |-> cur.ticket.ticketId,
            valid |-> cur.valid, gateAction |-> GateAction(cur.valid),
            validationMode |-> cur.validationMode, message |-> cur.message])
    /\ gpc' = "idle"
    /\ cur' = NoCur
    /\ UNCHANGED <<now, ticks, ledgerVars, vcall, totalProcessed, validCount, invalidCount,
                   validationHistory, received, trail, auxVars>>

\* ---------------------------------------------------------- vending machine

\* payloads of ticket/sale/request: a text that is no JSON, then objects whose
\* validityDays and lineNumber are whole numbers, a validityDays with a
\* fraction (7.5), a boolean, a string, and a validityDays or a lineNumber left
\* out (operator[] answers null for a key that is missing)
SalePayloads ==
    {[parses |-> FALSE, validityDays |-> JNull, lineNumber |-> JNull]}
        \cup [parses : {TRUE},
              validityDays : {JNumber(1), JFloat(1), JBoolean(TRUE), JString(<<Ascii.zero + 1>>),
                              JNull},
              lineNumber : {JNumber(1), JNull}]

IdleTvm ==
    [pc |-> "idle", req |-> 0, validityDays |-> 0, lineNumber |-> 0, creates |-> 0,
     replies |-> 0]

NoSale ==
    [payload |-> [parses |-> FALSE, validityDays |-> JNull, lineNumber |-> JNull],
     calls |-> 0, status |-> 0, ticketId |-> <<>>, ticketBase64 |-> BadToken,
     createsBefore |-> 0]

\* publishResponse of a success and publishError
SaleSuccess(req, ticketId, ticketBase64) ==
    [req |-> req, status |-> "success", ticketId |-> ticketId,
     ticketBase64 |-> ticketBase64, message |-> "none"]

SaleError(req, message) ==
    [req |-> req, status |-> "error", ticketId |-> <<>>, ticketBase64 |-> BadToken,
     message |-> message]

\* handleSaleRequest up to the Post: the payload is parsed and the two numbers
\* are read; an exception ends the handling in the catch, which publishes an
\* error; otherwise the create call is on its way
TvmReceive(payload) ==
    /\ tvm.pc = "idle"
    /\ Len(saleTrail) < MaxSales
    /\ LET validityDays == get_int(payload.validityDays)
           lineNumber == get_int(payload.lineNumber)
           req == Len(saleTrail) + 1
       IN  IF payload.parses /\ validityDays.ok /\ lineNumber.ok
           THEN /\ tvm' = [pc |-> "calling", req |-> req,
                           validityDays |-> validityDays.value,
                           lineNumber |-> lineNumber.value,
                           creates |-> creates, replies |-> Len(creplies)]
                /\ saleTrail' = Append(saleTrail,
                       [NoSale EXCEPT !.payload = payload, !.calls = 1,
                                      !.createsBefore = creates])
                /\ UNCHANGED saleResponses
           ELSE /\ saleTrail' = Append(saleTrail,
                       [NoSale EXCEPT !.payload = payload, !.createsBefore = creates])
                /\ saleResponses' = Append(saleResponses, SaleError(req, "Error"))
                /\ UNCHANGED tvm
    /\ UNCHANGED <<now, ticks, ledgerVars, vcall, gateVars, startup, listed, probe, runVars>>

\* the body of the create call: the two numbers in an object
SaleBody ==
    [parses |-> TRUE, hasFields |-> TRUE, validityDays |-> tvm.validityDays,
     lineNumber |-> tvm.lineNumber]

\* the create call reaches the ledger, whose handler starts on a worker thread
TvmCallArrives(th) ==
    /\ tvm.pc = "calling"
    /\ creates = tvm.creates
    /\ CreateStart(th, SaleBody)

\* handleSaleRequest that republishes whatever answer it gets as a success
TvmFinish_anyAnswer(res) ==
    /\ saleResponses' = Append(saleResponses,
           IF res.status = 0 THEN SaleError(tvm.req, "Back-Office unavailable")
           ELSE SaleSuccess(tvm.req, res.ticketId, res.ticketBase64))
    /\ saleTrail' = [saleTrail EXCEPT ![tvm.req].status = res.status,
                                      ![tvm.req].ticketId = res.ticketId,
                                      ![tvm.req].ticketBase64 = res.ticketBase64]
    /\ tvm' = IdleTvm
    /\ UNCHANGED <<now, ticks, ledgerVars, vcall, gateVars, startup, listed, probe, runVars>>

\* handleSaleRequest from the return of Post on: res is null (status 0), or
\* its status is 200 and the ticket is republished, or it is another status
TvmFinish(res) ==
    /\ saleResponses' = Append(saleResponses,
           IF res.status = 0 THEN SaleError(tvm.req, "Back-Office unavailable")
           ELSE IF res.status = 200
                THEN SaleSuccess(tvm.req, res.ticketId, res.ticketBase64)
                ELSE SaleError(tvm.req, "Ticket creation failed"))
    /\ saleTrail' = [saleTrail EXCEPT ![tvm.req].status = res.status,
                                      ![tvm.req].ticketId = res.ticketId,
                                      ![tvm.req].ticketBase64 = res.ticketBase64]
    /\ tvm' = IdleTvm
    /\ UNCHANGED <<now, ticks, ledgerVars, vcall, gateVars, startup, listed, probe, runVars>>

NoSaleRes == [status |-> 0, ticketId |-> <<>>, ticketBase64 |-> BadToken]

\* the answer of the ledger to this call has come
TvmAnswered ==
    /\ tvm.pc = "calling"
    /\ \E i \in 1..Len(creplies) :
          /\ creplies[i].call = tvm.creates + 1
          /\ TvmFinish(creplies[i])

\* a Post that has no read timeout: it returns without a response only when
\* the ledger is not reached
TvmUnavailable_noReadTimeout ==
    /\ tvm.pc = "calling"
    /\ creates = tvm.creates
    /\ TvmFinish(NoSaleRes)

\* the call ends without a response: the ledger is not reached within the
\* connection timeout, or its answer does not come within the read timeout,
\* wherever the handler of the ledger then stands
TvmUnavailable ==
    /\ tvm.pc = "calling"
    /\ TvmFinish(NoSaleRes)

\* the call is answered with a status other than 200 by the HTTP server in
\* front of the handler
TvmRefused ==
    /\ tvm.pc = "calling"
    /\ creates = tvm.creates
    /\ TvmFinish([NoSaleRes EXCEPT !.status = 503])

\* ----------------------------------------------------- the codec, exercised

\* ids: two the ledger mints, the id of the unit test with more dashes, the
\* empty id, and an id with a quote and a backslash in it
CodecIds == {idText(<<1, 0>>), idText(<<12, 3>>), <<84, 75, 84, 45, 48, 49, 50, 45, 83, 80, 69, 67, 73, 65, 76>>, <<>>, <<65, 34, 66, 92, 67>>}

\* dates: one in the format of getCurrentDateISO and one that is no date
CodecDates == {<<50, 48, 50, 52, 45, 48, 49, 45, 48, 55, 84, 49, 48, 58, 51, 48, 58, 48, 48>>, <<98, 97, 100>>}

CodecTickets ==
    [ticketId : CodecIds, creationDate : CodecDates, validityDays : {-1, 0, 7, 365},
     lineNumber : {0, 1, 99, 9999}]

\* the members of a ticket without the one named key
RECURSIVE without(_, _)
without(members, key) ==
    IF members = <<>> THEN <<>>
    ELSE (IF Head(members).key = key THEN <<>> ELSE <<Head(members)>>)
             \o without(Tail(members), key)

\* a member given another value
withValue(members, key, value) ==
    [i \in 1..Len(members) |->
        IF members[i].key = key THEN [key |-> key, value |-> value] ELSE members[i]]

SampleTicket ==
    [ticketId |-> idText(<<1, 0>>), creationDate |-> <<50, 48, 50, 52, 45, 48, 49, 45, 48, 55, 84, 49, 48, 58, 51, 48, 58, 48, 48>>,
     validityDays |-> 7, lineNumber |-> 1]

\* texts that are no ticket: the object of a ticket with one of the four keys
\* left out, with a key whose value is null or of the other type, the empty
\* object, a string, the text of the unit test that is no JSON, the empty
\* text, and the text of a ticket with something behind the object
CodecTexts ==
    {dump(JObject(without(to_json(SampleTicket).members, key))) :
        key \in {KeyTicketId, KeyCreationDate, KeyValidityDays, KeyLineNumber}}
    \cup {dump(JObject(withValue(to_json(SampleTicket).members, KeyTicketId, JNull))),
          dump(JObject(withValue(to_json(SampleTicket).members, KeyLineNumber, JNull))),
          dump(JObject(withValue(to_json(SampleTicket).members, KeyTicketId, JNumber(5)))),
          dump(JObject(withValue(to_json(SampleTicket).members, KeyValidityDays,
                                 JString(<<55>>)))),
          dump(JObject(<<>>)),
          dumpString(<<84, 75, 84>>),
          <<116, 104, 105, 115, 32, 105, 115, 32, 110, 111, 116, 32, 118, 97, 108, 105, 100, 32, 74, 83, 79, 78>>,
          <<>>,
          toJsonText(SampleTicket) \o <<120>>,
          toJsonText(SampleTicket) \o <<Ascii.space>>}

\* what is done to a token on its way: a byte that is no symbol put behind
\* it, in its middle or before it, or its padding taken off
Tampers == {"append", "pad", "tail", "insert", "prepend", "unpad"}

\* what is put behind a token: a byte that is no symbol, one '=' more, or a
\* byte that is no symbol with four symbols behind it
Suffix(how) ==
    IF how = "append" THEN <<Ascii.bang>>
    ELSE IF how = "pad" THEN <<Ascii.equals>>
    ELSE IF how = "tail" THEN <<Ascii.bang, 101, 121, 74, 48>>
    ELSE <<>>

RECURSIVE unpadded(_)
unpadded(token) ==
    IF token # <<>> /\ token[Len(token)] = Ascii.equals
    THEN unpadded(SubSeq(token, 1, Len(token) - 1)) ELSE token

tampered(token, how) ==
    IF how \in {"append", "pad", "tail"} THEN token \o Suffix(how)
    ELSE IF how = "prepend" THEN <<Ascii.bang>> \o token
    ELSE IF how = "insert"
         THEN SubSeq(token, 1, Len(token) \div 2) \o <<Ascii.bang>>
                  \o SubSeq(token, Len(token) \div 2 + 1, Len(token))
    ELSE unpadded(token)

NoResult == [ok |-> FALSE, ticket |-> NoTicketText]

\* the codec has been handed nothing
NoProbe ==
    [op |-> "none", source |-> "none", ticket |-> NoTicketText, text |-> <<>>,
     token |-> <<>>, tamper |-> "none", result |-> NoResult, token2 |-> <<>>,
     instant |-> 0, expired |-> FALSE, valid |-> FALSE, earlier |-> FALSE]

codecRest == <<now, ticks, ledgerVars, vcall, gateVars, startup, listed, tvmVars, runVars>>

\* toBase64 on the ticket handed in
EncodeTicket ==
    /\ probe.op = "ticket"
    /\ probe' = [probe EXCEPT !.op = "token", !.text = toJsonText(probe.ticket),
                              !.token = toBase64Text(probe.ticket)]
    /\ UNCHANGED codecRest

\* a text that is no ticket is put into base64, as any base64 tool does it
EncodeText ==
    /\ probe.op = "text"
    /\ probe' = [probe EXCEPT !.op = "token", !.token = base64Encode(probe.text)]
    /\ UNCHANGED codecRest

\* the token is changed on its way
Tamper(how) ==
    /\ probe.op = "token"
    /\ probe.tamper = "none"
    /\ probe' = [probe EXCEPT !.tamper = how, !.token = tampered(probe.token, how)]
    /\ UNCHANGED codecRest

\* fromBase64 on the token
DecodeToken ==
    /\ probe.op = "token"
    /\ probe' = [probe EXCEPT !.op = "decoded", !.result = fromBase64Text(probe.token)]
    /\ UNCHANGED codecRest

\* toBase64 on the ticket fromBase64 has returned
EncodeAgain ==
    /\ probe.op = "decoded"
    /\ probe.result.ok
    /\ probe' = [probe EXCEPT !.op = "reencoded", !.token2 = toBase64Text(probe.result.ticket)]
    /\ UNCHANGED codecRest

\* ------------------------------------------------------ dates written as text

\* two digits, as put_time writes %m %d %H %M %S
twoDigits(n) == <<Ascii.zero + (n \div 10), Ascii.zero + (n % 10)>>

\* Ticket::getCurrentDateISO, the text: put_time with "%Y-%m-%dT%H:%M:%S" on a
\* year of four digits
isoText(year, month, day, hour, minute, second) ==
    digitsOf(year) \o <<Ascii.minus>> \o twoDigits(month) \o <<Ascii.minus>>
        \o twoDigits(day) \o <<Ascii.upperT>> \o twoDigits(hour) \o <<Ascii.colon>>
        \o twoDigits(minute) \o <<Ascii.colon>> \o twoDigits(second)

\* the format of getCreationTimePoint, "%Y-%m-%dT%H:%M:%S", as time_get reads it
DateFormat ==
    <<[kind |-> "num", field |-> "year", width |-> 4, min |-> 0, max |-> 9999, byte |-> 0],
      [kind |-> "lit", field |-> "none", width |-> 1, min |-> 0, max |-> 0, byte |-> Ascii.minus],
      [kind |-> "num", field |-> "mon", width |-> 2, min |-> 1, max |-> 12, byte |-> 0],
      [kind |-> "lit", field |-> "none", width |-> 1, min |-> 0, max |-> 0, byte |-> Ascii.minus],
      [kind |-> "num", field |-> "mday", width |-> 2, min |-> 1, max |-> 31, byte |-> 0],
      [kind |-> "lit", field |-> "none", width |-> 1, min |-> 0, max |-> 0, byte |-> Ascii.upperT],
      [kind |-> "num", field |-> "hour", width |-> 2, min |-> 0, max |-> 23, byte |-> 0],
      [kind |-> "lit", field |-> "none", width |-> 1, min |-> 0, max |-> 0, byte |-> Ascii.colon],
      [kind |-> "num", field |-> "min", width |-> 2, min |-> 0, max |-> 59, byte |-> 0],
      [kind |-> "lit", field |-> "none", width |-> 1, min |-> 0, max |-> 0, byte |-> Ascii.colon],
      [kind |-> "num", field |-> "sec", width |-> 2, min |-> 0, max |-> 60, byte |-> 0]>>

\* std::tm tm = {}, with the year written in full and the month counted from 1
ZeroTm == [year |-> 1900, mon |-> 1, mday |-> 0, hour |-> 0, min |-> 0, sec |-> 0]

IsSpace(b) == b = Ascii.space \/ (Ascii.tab <= b /\ b <= Ascii.cr)

toupper(b) == IF Ascii.lowerA <= b /\ b <= Ascii.lowerA + 25 THEN b - 32 ELSE b

\* the digits of text from pos on, at most width of them
digitRun(text, pos, width) ==
    LET runs == {k \in 0..width :
                    \A j \in 0..(k - 1) : pos + j <= Len(text) /\ IsDigit(text[pos + j])}
    IN  CHOOSE k \in runs : \A other \in runs : other <= k

RECURSIVE numberAt(_, _, _)
numberAt(text, pos, count) ==
    IF count = 0 THEN 0
    ELSE 10 * numberAt(text, pos, count - 1) + (text[pos + count - 1] - Ascii.zero)

\* the first position of text that holds no white space (the sentry of operator>>)
RECURSIVE afterSpaces(_, _)
afterSpaces(text, pos) ==
    IF pos <= Len(text) /\ IsSpace(text[pos]) THEN afterSpaces(text, pos + 1) ELSE pos

\* time_get::get over DateFormat from its i-th element on. The libraries of
\* the builds differ: before its version 12 (strict) libstdc++ wants every
\* number at its full width, reads a year of two digits as one of the 20th
\* century, lets a month or a day be 00 and fails when the text ends before
\* the format; from version 12 on it takes shorter numbers inside their range
\* and stops without failure when the text ends where a literal is due
RECURSIVE extractViaFormat(_, _, _, _)
extractViaFormat(text, i, st, strict) ==
    IF i > Len(DateFormat) \/ ~st.ok \/ st.stopped THEN st
    ELSE LET item == DateFormat[i]
             failed == [st EXCEPT !.ok = FALSE]
         IN  IF st.pos > Len(text)
             THEN (IF strict \/ item.kind = "num" THEN failed
                   ELSE [st EXCEPT !.stopped = TRUE])
             ELSE IF item.kind = "lit"
             THEN (IF toupper(text[st.pos]) = toupper(item.byte)
                   THEN extractViaFormat(text, i + 1, [st EXCEPT !.pos = @ + 1], strict)
                   ELSE failed)
             ELSE LET count == digitRun(text, st.pos, item.width)
                      value == numberAt(text, st.pos, count)
                      taken == IF strict
                               THEN (count = item.width /\ value <= item.max)
                                        \/ (item.width = 4 /\ count = 2)
                               ELSE count > 0 /\ item.min <= value /\ value <= item.max
                      member == IF strict /\ count < item.width THEN 1900 + value
                                ELSE value
                  IN  IF taken
                      THEN extractViaFormat(text, i + 1,
                               [st EXCEPT !.pos = @ + count, !.tm[item.field] = member],
                               strict)
                      ELSE failed

\* ss >> std::get_time(&tm, "%Y-%m-%dT%H:%M:%S") and ss.fail()
get_time(text, strict) ==
    extractViaFormat(text, 1,
        [ok |-> TRUE, stopped |-> FALSE, pos |-> afterSpaces(text, 1), tm |-> ZeroTm],
        strict)

\* the days from 1970-01-01 to the day of tm; months and days out of their
\* range count on into the neighbouring months, as mktime normalises them
daysFromCivil(tm) ==
    LET year == tm.year + (tm.mon - 1) \div 12
        month == ((tm.mon - 1) % 12) + 1
        y == IF month <= 2 THEN year - 1 ELSE year
        era == y \div 400
        yoe == y - era * 400
        doy == (153 * (IF month > 2 THEN month - 3 ELSE month + 9) + 2) \div 5
        doe == yoe * 365 + yoe \div 4 - yoe \div 100 + doy
    IN  era * 146097 + doe - 719468 + (tm.mday - 1)

\* std::mktime in a process whose time zone is UTC, in whole hours
mktime(tm) == 24 * daysFromCivil(tm) + tm.hour + (60 * tm.min + tm.sec) \div 3600

\* the date of a ticket from its text, for one library
getCreationTimePoint(text, strict) ==
    LET got == get_time(text, strict)
    IN  IF got.ok THEN [parsable |-> TRUE, at |-> mktime(got.tm) - EpochHour]
        ELSE BadDate

\* Ticket::getCreationTimePoint: what the builds can make of the text
getCreationTimePointOutcomes(text) ==
    {getCreationTimePoint(text, strict) : strict \in BOOLEAN}

\* ---------------------------------------------------- the expiry, exercised

\* validities: negative, none, one and two days, the first that leaves the
\* time_point, and the first that leaves the int
ExpiryDays == {-1, 0, 1, 2, 100000, 89478486}

\* creation dates: two that parse and one that does not
ExpiryDates == {getCurrentDateISO(0), getCurrentDateISO(5), BadDate}

ExpiryTickets ==
    {[ticketId |-> id, creationDate |-> d, validityDays |-> v, lineNumber |-> 1] :
        id \in {<<1, 0>>, <<>>}, d \in ExpiryDates, v \in ExpiryDays}

\* the readings of the clock: until behind the end of two days
ExpiryInstants == 0..MaxInstant

\* isExpired and isValid on the ticket handed in, at the instant handed in
CheckExpired ==
    /\ probe.op = "expiry"
    /\ \E outcome \in isExpiredOutcomes(probe.ticket, probe.instant) :
          probe' = [probe EXCEPT !.op = "checked", !.expired = outcome,
                                 !.valid = isValidGiven(probe.ticket, outcome)]
    /\ UNCHANGED codecRest

\* the same ticket is asked again, step hours later
CheckLater(step) ==
    /\ probe.op \in {"checked", "later"}
    /\ probe.instant + step <= MaxInstant
    /\ \E outcome \in isExpiredOutcomes(probe.ticket, probe.instant + step) :
          probe' = [probe EXCEPT !.op = "later", !.instant = probe.instant + step,
                                 !.earlier = probe.expired, !.expired = outcome,
                                 !.valid = isValidGiven(probe.ticket, outcome)]
    /\ UNCHANGED codecRest

\* the texts of creation dates handed to the expiry test: two dates as
\* getCurrentDateISO writes them, the second with a Z behind it, with a blank
\* before it, with a blank in the place of the T, cut behind the day, and with
\* month and hour of one digit; the 13th month, the 30th of February, the
\* text of the codec tests that is no date, and the empty text
DateTexts ==
    {isoText(2024, 1, 1, 0, 0, 0),
     isoText(2024, 1, 1, 5, 0, 0),
     isoText(2024, 1, 1, 5, 0, 0) \o <<Ascii.upperZ>>,
     <<Ascii.space>> \o isoText(2024, 1, 1, 5, 0, 0),
     [isoText(2024, 1, 1, 5, 0, 0) EXCEPT ![11] = Ascii.space],
     SubSeq(isoText(2024, 1, 1, 5, 0, 0), 1, 10),
     digitsOf(2024) \o <<Ascii.minus, Ascii.zero + 1, Ascii.minus>> \o twoDigits(1)
         \o <<Ascii.upperT, Ascii.zero + 5, Ascii.colon>> \o twoDigits(0)
         \o <<Ascii.colon>> \o twoDigits(0),
     isoText(2024, 13, 1, 5, 0, 0),
     isoText(2024, 2, 30, 5, 0, 0),
     <<98, 97, 100>>,
     <<>>}

\* validities handed in with the texts
DateDays == {-1, 0, 1, 2}

\* isExpired and isValid on a ticket whose creationDate_ is the text handed
\* in: getCreationTimePoint reads the text, then the comparison
CheckExpiredText ==
    /\ probe.op = "expiryText"
    /\ \E date \in getCreationTimePointOutcomes(probe.text) :
          LET ticket == [probe.ticket EXCEPT !.creationDate = date]
          IN  \E outcome \in isExpiredOutcomes(ticket, probe.instant) :
                  probe' = [probe EXCEPT !.op = "checked", !.ticket = ticket,
                                         !.expired = outcome,
                                         !.valid = isValidGiven(ticket, outcome)]
    /\ UNCHANGED codecRest

\* ----------------------------------------------------------- specification

\* the state after construction of the ledger and the gate
SystemInit ==
    /\ now = 0
    /\ ticks = 0
    /\ tickets = <<>>
    /\ ticketCounter = 0
    /\ stockFile = <<>>
    /\ reports = <<>>
    /\ cthread = [th \in Threads |-> IdleThread]
    /\ creates = 0
    /\ creplies = <<>>
    /\ vcall = NoCall
    /\ totalProcessed = 0
    /\ validCount = 0
    /\ invalidCount = 0
    /\ validationHistory = <<>>
    /\ gpc = "idle"
    /\ cur = NoCur
    /\ received = 0
    /\ responses = <<>>
    /\ trail = <<>>
    /\ startup = NoStartup
    /\ listed = <<>>
    /\ tvm = IdleTvm
    /\ saleTrail = <<>>
    /\ saleResponses = <<>>
    /\ flushes = <<>>

Init == SystemInit /\ plan = NoPlan /\ probe = NoProbe

Next ==
    \/ \E th \in Threads, body \in CreateBodies : CreateStart(th, body)
    \/ \E th \in Threads : CreateStoreCounter(th)
    \/ \E th \in Threads : CreateInsert(th)
    \/ \E th \in Threads : CreateRespond(th)
    \/ \E simulatedFailure \in BOOLEAN : LedgerValidate(simulatedFailure)
    \/ \E payload \in Payloads : GateReceive(payload)
    \/ GateOnlineAnswered
    \/ GateOnlineUnavailable
    \/ \E step \in ClockSteps : Tick(step)

Spec == Init /\ [][Next]_vars

\* the ledger alone, with its restarts and the clients of its four endpoints
LedgerNext ==
    \/ \E th \in Threads, body \in CreateBodies : CreateStart(th, body)
    \/ \E th \in Threads : CreateStoreCounter(th)
    \/ \E th \in Threads : CreateInsert(th)
    \/ \E th \in Threads : CreateRespond(th)
    \/ \E token \in ClientTokens : ClientValidate(token)
    \/ \E simulatedFailure \in BOOLEAN : LedgerValidate(simulatedFailure)
    \/ ListTickets
    \/ handleReport(GateReport(now, totalProcessed, validCount, invalidCount,
                               validationHistory))
    \/ Restart
    \/ \E step \in ClockSteps : Tick(step)

LedgerSpec == Init /\ [][LedgerNext]_vars

\* the vending machine and the ledger behind it
TvmNext ==
    \/ \E payload \in SalePayloads : TvmReceive(payload)
    \/ \E th \in Threads : TvmCallArrives(th)
    \/ \E th \in Threads : CreateStoreCounter(th)
    \/ \E th \in Threads : CreateInsert(th)
    \/ \E th \in Threads : CreateRespond(th)
    \/ TvmAnswered
    \/ TvmUnavailable
    \/ TvmRefused

TvmSpec == Init /\ [][TvmNext]_vars

\* the codec alone: a ticket or a text is handed in, encoded, possibly
\* changed on its way, decoded and encoded again
CodecInit ==
    /\ SystemInit
    /\ plan = NoPlan
    /\ probe \in {[NoProbe EXCEPT !.op = "ticket", !.source = "ticket", !.ticket = t] :
                      t \in CodecTickets}
                 \cup {[NoProbe EXCEPT !.op = "text", !.source = "text", !.text = x] :
                          x \in CodecTexts}

CodecNext ==
    \/ EncodeTicket
    \/ EncodeText
    \/ \E how \in Tampers : Tamper(how)
    \/ DecodeToken
    \/ EncodeAgain

CodecSpec == CodecInit /\ [][CodecNext]_vars

\* a ticket and a reading of the clock are handed to the expiry test
ExpiryInit ==
    /\ SystemInit
    /\ plan = NoPlan
    /\ probe \in {[NoProbe EXCEPT !.op = "expiry", !.source = "ticket", !.ticket = t,
                                  !.instant = i] :
                      t \in ExpiryTickets, i \in ExpiryInstants}

ExpiryNext ==
    \/ CheckExpired
    \/ \E step \in {1, HoursPerDay} : CheckLater(step)

ExpirySpec == ExpiryInit /\ [][ExpiryNext]_vars

\* a ticket with the text of a date and a reading of the clock are handed to
\* the expiry test
DateInit ==
    /\ SystemInit
    /\ plan = NoPlan
    /\ probe \in {[NoProbe EXCEPT !.op = "expiryText", !.source = "date", !.text = x,
                                  !.ticket = [ticketId |-> id, creationDate |-> BadDate,
                                              validityDays |-> v, lineNumber |-> 1],
                                  !.instant = i] :
                      x \in DateTexts, id \in {<<1, 0>>, <<>>}, v \in DateDays,
                      i \in ExpiryInstants}

DateNext ==
    \/ CheckExpiredText
    \/ \E step \in {1, HoursPerDay} : CheckLater(step)

DateSpec == DateInit /\ [][DateNext]_vars

\* the ledger with the reports of several gates, creates and validations
ReportNext ==
    \/ \E th \in Threads, g \in Gates, k \in 1..MaxPosts :
          \E body \in ReportBodies(g, k) : ReportStart(th, g, body)
    \/ \E th \in Threads : ReportStore(th)
    \/ \E th \in Threads : ReportRespond(th)
    \/ \E th \in Threads, body \in CreateBodies : CreateStart(th, body)
    \/ \E th \in Threads : CreateStoreCounter(th)
    \/ \E th \in Threads : CreateInsert(th)
    \/ \E th \in Threads : CreateRespond(th)
    \/ \E token \in ClientTokens : ClientValidate(token)
    \/ \E simulatedFailure \in BOOLEAN : LedgerValidate(simulatedFailure)

ReportSpec == Init /\ [][ReportNext]_vars

\* the sale requests sent while the ledger is silent
SilentSales ==
    {[parses |-> FALSE, validityDays |-> JNull, lineNumber |-> JNull],
     [parses |-> TRUE, validityDays |-> JNumber(1), lineNumber |-> JNumber(1)]}

\* the gate and the vending machine in front of a ledger that may stay silent
\* for ever: no step of the ledger is owed.  What is owed is the return of
\* every Post, by its connection and read timeouts (validateOnline 2 s and
\* 5 s, sendReport 2 s and the default of the client, handleSaleRequest 5 s
\* and 10 s), and the steps of the two consuming threads themselves
SilentInit == SystemInit /\ plan \in SilentPlans /\ probe = NoProbe

SilentNext ==
    \/ RunReceive
    \/ RunDecide
    \/ RunReportDone
    \/ RunPublish
    \/ \E payload \in SilentSales : TvmReceive(payload)
    \/ \E th \in Threads : TvmCallArrives(th)
    \/ \E th \in Threads : CreateStoreCounter(th)
    \/ \E th \in Threads : CreateInsert(th)
    \/ \E th \in Threads : CreateRespond(th)
    \/ TvmAnswered
    \/ TvmUnavailable
    \/ TvmRefused

SilentSpec ==
    /\ SilentInit
    /\ [][SilentNext]_vars
    /\ WF_vars(RunDecide)
    /\ WF_vars(RunReportDone)
    /\ WF_vars(RunPublish)
    /\ WF_vars(TvmAnswered \/ TvmUnavailable \/ TvmRefused)

\* sale requests, faulty and sound
FaultSales ==
    {[parses |-> FALSE, validityDays |-> JNull, lineNumber |-> JNull],
     [parses |-> TRUE, validityDays |-> JNumber(1), lineNumber |-> JNull],
     [parses |-> TRUE, validityDays |-> JNumber(1), lineNumber |-> JNumber(1)]}

\* the gate and the vending machine on runs in which faulty requests and
\* failures of the ledger come between sound requests
FaultInit == SystemInit /\ plan \in FaultPlans /\ probe = NoProbe

FaultNext ==
    \/ RunReceive
    \/ RunLedgerValidate
    \/ RunDecide
    \/ RunReportDone
    \/ RunPublish
    \/ \E payload \in FaultSales : TvmReceive(payload)
    \/ \E th \in Threads : TvmCallArrives(th)
    \/ \E th \in Threads : CreateStoreCounter(th)
    \/ \E th \in Threads : CreateInsert(th)
    \/ \E th \in Threads : CreateRespond(th)
    \/ TvmAnswered
    \/ TvmUnavailable
    \/ TvmRefused

FaultSpec == FaultInit /\ [][FaultNext]_vars

\* the gate alone on a long run of requests
RunInit == SystemInit /\ plan \in Plans /\ probe = NoProbe

RunNext ==
    \/ RunReceive
    \/ RunLedgerValidate
    \/ RunDecide
    \/ RunReportDone
    \/ RunPublish

RunSpec == RunInit /\ [][RunNext]_vars

\* ------------------------------------------------------------------ claims

\* the handling of the r-th consumed message has ended
Handled(r) == r <= received /\ ~(gpc = "online" /\ cur.req = r)

\* the published responses that answer the r-th consumed message
ResponsesTo(r) == {i \in 1..Len(responses) : responses[i].req = r}

\* id non-empty and validityDays >= 0
WellFormed(ticket) == ticket.ticketId # <<>> /\ ticket.validityDays >= 0

\* the last instant of the validity of a ticket whose date parses
ValidUntil(ticket) == ticket.creationDate.at + 24 * ticket.validityDays

\* now <= issuedAt + validityDays days, on a date that parses
Unexpired(ticket, t) == ticket.creationDate.parsable /\ t <= ValidUntil(ticket)

\* C1: a request whose token decodes makes exactly one online attempt; once it
\* is handled the offline check has run if and only if that attempt did not
\* end with status 200, and then, and only then, the one published decision
\* carries mode offline; while the attempt is pending the gate can always go on
C1_OnlineFirstOfflineFallback ==
    /\ \A r \in 1..Len(trail) :
          trail[r].decoded =>
             /\ trail[r].onlineAttempts = 1
             /\ Handled(r) =>
                   /\ trail[r].onlineRes \in {"s200", "s500", "transport"}
                   /\ (trail[r].offlineRuns = 1) <=> (trail[r].onlineRes # "s200")
                   /\ (trail[r].offlineRuns = 0) <=> (trail[r].onlineRes = "s200")
                   /\ Cardinality(ResponsesTo(r)) = 1
                   /\ \A i \in ResponsesTo(r) :
                         (responses[i].validationMode = "offline")
                             <=> (trail[r].onlineRes # "s200")
    /\ gpc = "online" => vcall.state \in {"sent", "answered"}

\* C1 witness: a handled request whose online attempt was answered 500 and
\* whose decision was made offline
C1_Witness ==
    \E r \in 1..Len(trail) :
        /\ Handled(r) /\ trail[r].decoded /\ trail[r].onlineRes = "s500"
        /\ \E i \in ResponsesTo(r) : responses[i].validationMode = "offline"

\* the handled requests whose ticket is well-formed, unexpired and not in the registry
UnknownUnexpired(r) ==
    /\ Handled(r) /\ trail[r].decoded
    /\ WellFormed(trail[r].ticket)
    /\ Unexpired(trail[r].ticket, now)
    /\ \A k \in 1..Len(tickets) : tickets[k].ticketId # trail[r].ticket.ticketId

\* C2 as stated: such a request is reported valid and offline when the ledger
\* gave no response, and invalid whenever the ledger answered
C2_AsStated ==
    \A r \in 1..Len(trail) : UnknownUnexpired(r) =>
        \A i \in ResponsesTo(r) :
            /\ trail[r].onlineRes = "transport" =>
                   responses[i].valid /\ responses[i].validationMode = "offline"
            /\ trail[r].onlineRes \in {"s200", "s500"} => ~responses[i].valid

\* C2 amended: such a request is reported valid and offline when the ledger
\* gave no response or answered with a status other than 200, and invalid
\* (online) when the ledger answered with status 200
C2_OfflineTrustUnless200 ==
    \A r \in 1..Len(trail) : UnknownUnexpired(r) =>
        /\ ResponsesTo(r) # {}
        /\ \A i \in ResponsesTo(r) :
              /\ trail[r].onlineRes \in {"transport", "s500"} =>
                     responses[i].valid /\ responses[i].validationMode = "offline"
              /\ trail[r].onlineRes = "s200" =>
                     ~responses[i].valid /\ responses[i].validationMode = "online"

\* C2 witness: one unknown unexpired ticket rejected online and one admitted offline
C2_Witness ==
    \E r, q \in 1..Len(trail) :
        /\ UnknownUnexpired(r) /\ trail[r].onlineRes = "s200"
        /\ \E i \in ResponsesTo(r) : ~responses[i].valid
        /\ UnknownUnexpired(q) /\ trail[q].onlineRes = "transport"
        /\ \E i \in ResponsesTo(q) : responses[i].valid

\* C3: every consumed message, whatever its payload, is answered by exactly
\* one published response once its handling has ended
C3_ExactlyOneResponse ==
    \A r \in 1..received : Handled(r) => Cardinality(ResponsesTo(r)) = 1

\* C4: a decision taken on a 200 answer is the valid flag of that answer, is
\* published with mode online, and the offline check has not run for it; the
\* 200 answer in flight carries valid = exists and not expired
C4_OnlineDecisionIsLedgerResult ==
    /\ \A r \in 1..Len(trail) :
          (Handled(r) /\ trail[r].decoded /\ trail[r].onlineRes = "s200") =>
              /\ trail[r].offlineRuns = 0
              /\ ResponsesTo(r) # {}
              /\ \A i \in ResponsesTo(r) :
                    /\ responses[i].valid = trail[r].ledgerValid
                    /\ responses[i].validationMode = "online"
    /\ (vcall.state = "answered" /\ vcall.res.status = 200) =>
          (vcall.res.valid <=>
              /\ \E k \in 1..vcall.res.regLen :
                    tickets[k].ticketId = fromBase64(vcall.token).ticket.ticketId
              /\ Unexpired(fromBase64(vcall.token).ticket, vcall.res.evalAt))

\* C4 witness: an online decision that rejects a ticket the offline check
\* would have admitted at that instant
C4_Witness ==
    \E r \in 1..Len(trail) :
        /\ Handled(r) /\ trail[r].decoded /\ trail[r].onlineRes = "s200"
        /\ Unexpired(trail[r].ticket, trail[r].decidedAt)
        /\ \E i \in ResponsesTo(r) :
              ~responses[i].valid /\ responses[i].validationMode = "online"

\* C5: in every published response gateAction is OPEN exactly when valid is
\* true and CLOSED exactly when valid is false
C5_ActionFollowsValid ==
    \A i \in 1..Len(responses) :
        /\ responses[i].gateAction \in {"OPEN", "CLOSED"}
        /\ (responses[i].gateAction = "OPEN") <=> responses[i].valid
        /\ (responses[i].gateAction = "CLOSED") <=> ~responses[i].valid

\* C5 witness: a CLOSED decided online and an OPEN decided offline
C5_Witness ==
    \E i, j \in 1..Len(responses) :
        /\ ~responses[i].valid /\ responses[i].validationMode = "online"
        /\ responses[i].gateAction = "CLOSED"
        /\ responses[j].valid /\ responses[j].validationMode = "offline"
        /\ responses[j].gateAction = "OPEN"

\* C6: a consumed message whose token did not decode is answered by a
\* response with valid = false and gateAction = CLOSED
C6_UndecodableIsAnsweredClosed ==
    \A r \in 1..Len(trail) :
        (Handled(r) /\ ~trail[r].decoded) =>
            \E i \in ResponsesTo(r) :
                ~responses[i].valid /\ responses[i].gateAction = "CLOSED"

\* C7 as stated: an offline decision is valid exactly when the ticket is
\* well-formed and not expired
C7_AsStated ==
    \A r \in 1..Len(trail) :
        (Handled(r) /\ trail[r].decoded /\ trail[r].offlineRuns = 1) =>
            \A i \in ResponsesTo(r) :
                responses[i].valid <=>
                    (WellFormed(trail[r].ticket)
                        /\ Unexpired(trail[r].ticket, trail[r].decidedAt))

\* C7 amended: an offline decision is valid exactly when the ticket is not
\* expired (its date parses and the decision is taken no later than
\* issuedAt + validityDays days), whatever its id and the sign of validityDays
C7_OfflineValidIffUnexpired ==
    \A r \in 1..Len(trail) :
        (Handled(r) /\ trail[r].decoded /\ trail[r].offlineRuns = 1) =>
            /\ ResponsesTo(r) # {}
            /\ \A i \in ResponsesTo(r) :
                  /\ responses[i].validationMode = "offline"
                  /\ responses[i].valid <=>
                         Unexpired(trail[r].ticket, trail[r].decidedAt)

\* C7 witness: a ticket with an empty id admitted offline
C7_Witness ==
    \E r \in 1..Len(trail) :
        /\ Handled(r) /\ trail[r].decoded /\ trail[r].offlineRuns = 1
        /\ trail[r].ticket.ticketId = <<>>
        /\ \E i \in ResponsesTo(r) : responses[i].valid /\ responses[i].gateAction = "OPEN"

\* the registry as the validate call in flight saw it holds the id of its token
AnswerIdKnown ==
    \E k \in 1..vcall.res.regLen :
        tickets[k].ticketId = fromBase64(vcall.token).ticket.ticketId

CallOfIssuedTicket ==
    /\ vcall.state = "answered"
    /\ vcall.token \in HandedTokens
    /\ fromBase64(vcall.token).ticket.validityDays >= 1

C10_SequenceNumbersUnique ==
    \A i, j \in 1..Len(tickets) :
        i # j => tickets[i].ticketId[1] # tickets[j].ticketId[1]

\* the sequence number of a ticket: the number read behind the first '-' of its id
SeqOf(ticket) == stoi(afterFirstDash(idText(ticket.ticketId)).rest).value

\* the tickets of the registry that were minted since the ledger last started
MintedSinceStart == {i \in 1..Len(tickets) : i > Len(startup.loaded)}

\* C11: once the ledger has been started again on its persisted store, the
\* tickets it loaded stay at the head of the registry, and every ticket minted
\* since, in the registry or still held by a create handler, has a sequence
\* number strictly greater than every sequence number of the loaded store and
\* an id no loaded ticket has
C11_RestartNeverReissues ==
    startup.restarts > 0 =>
        /\ Len(tickets) >= Len(startup.loaded)
        /\ SubSeq(tickets, 1, Len(startup.loaded)) = startup.loaded
        /\ ticketCounter >= seedCounter(saveTickets(startup.loaded))
        /\ \A k \in 1..Len(startup.loaded) :
              /\ \A i \in MintedSinceStart :
                    /\ SeqOf(tickets[i]) > SeqOf(startup.loaded[k])
                    /\ tickets[i].ticketId # startup.loaded[k].ticketId
              /\ \A th \in Threads :
                    cthread[th].pc \in {"insert", "respond"} =>
                        SeqOf(cthread[th].ticket) > SeqOf(startup.loaded[k])

\* C11 witness: a restart loaded a ticket with sequence number 1 and a ticket
\* minted after it is in the registry
C11_Witness ==
    /\ startup.restarts > 0
    /\ \E k \in 1..Len(startup.loaded) : SeqOf(startup.loaded[k]) = 1
    /\ MintedSinceStart # {}

\* the create requests answered 200 so far
Returned == {i \in 1..Len(creplies) : creplies[i].status = 200}

\* the create handlers that have left the locked block and not yet answered
Answering == {th \in Threads : cthread[th].pc = "respond"}

\* C12: between the steps of the handlers, when nobody holds ticketMutex_, the
\* file lists exactly the tickets of the registry in registry order; the
\* ticket of every create that has returned is a row of the file; and as long
\* as the ledger was not restarted the registry has one entry per create that
\* has passed the locked block, so that N concurrent creates that have all
\* returned leave exactly N entries in the registry and N rows in the file
C12_CreatePersistsBeforeReturn ==
    /\ stockFile = saveTickets(tickets)
    /\ \A i \in Returned :
          \E k \in 1..Len(stockFile) :
              stockFile[k] = saveTickets(<<fromBase64(creplies[i].ticketBase64).ticket>>)[1]
    /\ startup.restarts = 0 =>
          /\ Len(tickets) = Cardinality(Returned) + Cardinality(Answering)
          /\ Len(stockFile) = Len(tickets)
          /\ (\A th \in Threads : cthread[th].pc = "idle") =>
                 Len(tickets) = creates - (Len(creplies) - Cardinality(Returned))

\* C12 witness: two creates that ran at the same time, as their equal
\* sequence numbers show, have both returned and left two entries and two rows
C12_Witness ==
    /\ startup.restarts = 0
    /\ \A th \in Threads : cthread[th].pc = "idle"
    /\ Cardinality(Returned) = 2
    /\ Len(tickets) = 2 /\ Len(stockFile) = 2
    /\ SeqOf(tickets[1]) = SeqOf(tickets[2])

\* registry a is the head of registry b
IsPrefix(a, b) == Len(a) <= Len(b) /\ SubSeq(b, 1, Len(a)) = a

\* C13: no step of create, validate, list or report, and no restart on the
\* persisted store either, changes, removes or moves an entry of the registry:
\* the registry before a step is the head of the registry after it; and the
\* array list has answered with is, entry by entry and in insertion order, the
\* head of the registry
C13_RegistryAppendOnly ==
    /\ [][IsPrefix(tickets, tickets')]_vars
    /\ [](IsPrefix(listed, listTickets(tickets)))

\* C13 witness: with two tickets in the registry, list has answered with both,
\* a validate call was answered and a report was stored
C13_Witness ==
    /\ Len(tickets) = 2
    /\ listed = listTickets(tickets)
    /\ vcall.state = "answered"
    /\ Len(reports) > 0

\* numbers a row may carry: negative, zero, one and several digits
RowNumbers == {-12, -1, 0, 7, 10, 365, 9999}

\* C14: loading what saveTickets wrote gives the registry back, ticket by
\* ticket with the same id, creation date, validity and line and in the same
\* order, whenever it is loaded; every number a row may carry is read back as
\* written; so the ticket of every create that has returned is in the registry,
\* also after a restart, and validate never answers "not found" for its token
C14_SaveThenLoad ==
    /\ loadTickets(saveTickets(tickets), now) = tickets
    /\ Loadable(stockFile)
    /\ \A n \in RowNumbers : stoi(to_string(n)) = [ok |-> TRUE, value |-> n]
    /\ \A i \in Returned :
          \E k \in 1..Len(tickets) : tickets[k] = fromBase64(creplies[i].ticketBase64).ticket
    /\ (vcall.state = "answered" /\ vcall.res.status = 200 /\ vcall.token \in HandedTokens) =>
          vcall.res.message # "Ticket not found in database"

\* C14 witness: after a restart at a later hour than the ticket was issued,
\* validate answers that a ticket the restart loaded is valid
C14_Witness ==
    /\ startup.restarts > 0
    /\ vcall.state = "answered" /\ vcall.res.status = 200 /\ vcall.res.valid
    /\ \E k \in 1..Len(startup.loaded) :
          /\ startup.loaded[k] = fromBase64(vcall.token).ticket
          /\ startup.loaded[k].creationDate.at < now

\* id non-empty and validityDays >= 0, on a ticket whose strings are texts
WellFormedText(t) == t.ticketId # <<>> /\ t.validityDays >= 0

\* the probe is a ticket whose token nobody has touched
UntouchedTicket == probe.source = "ticket" /\ probe.tamper = "none"

\* C15: the token of a well-formed ticket decodes to a ticket with the same
\* id, creation date, validity and line, and the token of the decoded ticket
\* is, byte for byte, the token it was decoded from
C15_RoundTrip ==
    (UntouchedTicket /\ WellFormedText(probe.ticket)) =>
        /\ probe.op \in {"decoded", "reencoded"} =>
              /\ probe.result.ok
              /\ probe.result.ticket.ticketId = probe.ticket.ticketId
              /\ probe.result.ticket.creationDate = probe.ticket.creationDate
              /\ probe.result.ticket.validityDays = probe.ticket.validityDays
              /\ probe.result.ticket.lineNumber = probe.ticket.lineNumber
        /\ probe.op = "reencoded" => probe.token2 = probe.token

\* C15 witness: a ticket whose id holds a quote and a backslash and whose
\* line has four digits has gone through encode, decode and encode
C15_Witness ==
    /\ UntouchedTicket /\ WellFormedText(probe.ticket)
    /\ probe.op = "reencoded"
    /\ \E i \in 1..Len(probe.ticket.ticketId) : probe.ticket.ticketId[i] = Ascii.quote
    /\ probe.ticket.lineNumber = 9999
    /\ probe.result.ticket = probe.ticket
    /\ probe.token2 = probe.token

\* the bytes of A-Z, a-z, 0-9, '+' and '/'
IsSymbol(b) ==
    \/ Ascii.upperA <= b /\ b < Ascii.upperA + 26
    \/ Ascii.lowerA <= b /\ b < Ascii.lowerA + 26
    \/ IsDigit(b)
    \/ b \in {Ascii.plus, Ascii.slash}

\* C16: the token of a ticket, well-formed or not, holds only bytes of A-Z,
\* a-z, 0-9, '+', '/' and '=', its length is a multiple of 4 and not 0, and
\* behind a '=' only '=' follows
C16_AlphabetClosure ==
    (UntouchedTicket /\ probe.op = "token") =>
        /\ \A i \in 1..Len(probe.token) :
              IsSymbol(probe.token[i]) \/ probe.token[i] = Ascii.equals
        /\ Len(probe.token) % 4 = 0
        /\ Len(probe.token) > 0
        /\ \A i, k \in 1..Len(probe.token) :
              (i < k /\ probe.token[i] = Ascii.equals) => probe.token[k] = Ascii.equals

\* C16 witness: the token of a ticket that ends with two '='
C16_Witness ==
    /\ UntouchedTicket /\ probe.op = "token"
    /\ Len(probe.token) >= 4
    /\ probe.token[Len(probe.token)] = Ascii.equals
    /\ probe.token[Len(probe.token) - 1] = Ascii.equals
    /\ IsSymbol(probe.token[Len(probe.token) - 2])

\* the token holds a byte that is neither a symbol nor '=' with no '=' before it
ForeignBeforePadding(token) ==
    \E i \in 1..Len(token) :
        /\ ~IsSymbol(token[i]) /\ token[i] # Ascii.equals
        /\ \A k \in 1..(i - 1) : token[k] # Ascii.equals

\* C17: fromBase64 fails on every token that holds a byte outside the
\* 64 symbols before any padding
C17_ForeignByteFailsDecoding ==
    (probe.op = "decoded" /\ ForeignBeforePadding(probe.token)) => ~probe.result.ok

\* the text is an object that has the four keys
IsFieldMap(text) ==
    /\ parse(text).ok
    /\ parse(text).value.type = "object"
    /\ \A key \in {KeyTicketId, KeyCreationDate, KeyValidityDays, KeyLineNumber} :
          \E i \in 1..Len(parse(text).value.members) : parse(text).value.members[i].key = key

\* C18: fromBase64 fails on every token whose decoded text is no object with
\* the four keys; and the fields of a ticket it returns are the values the
\* text gives to the four keys, none of them a default
C18_MissingFieldFailsDecoding ==
    probe.op = "decoded" =>
        /\ ~IsFieldMap(base64DecodeText(probe.token)) => ~probe.result.ok
        /\ probe.result.ok =>
              LET j == parse(base64DecodeText(probe.token)).value
              IN  /\ at(j, KeyTicketId).value = JString(probe.result.ticket.ticketId)
                  /\ at(j, KeyCreationDate).value = JString(probe.result.ticket.creationDate)
                  /\ at(j, KeyValidityDays).value = JNumber(probe.result.ticket.validityDays)
                  /\ at(j, KeyLineNumber).value = JNumber(probe.result.ticket.lineNumber)

\* C18 witness: the token of an object that has every key but lineNumber was
\* handed to fromBase64, which failed
C18_Witness ==
    /\ probe.op = "decoded" /\ probe.source = "text" /\ probe.tamper = "none"
    /\ parse(base64DecodeText(probe.token)).ok
    /\ at(parse(base64DecodeText(probe.token)).value, KeyTicketId).ok
    /\ at(parse(base64DecodeText(probe.token)).value, KeyCreationDate).ok
    /\ at(parse(base64DecodeText(probe.token)).value, KeyValidityDays).ok
    /\ ~at(parse(base64DecodeText(probe.token)).value, KeyLineNumber).ok
    /\ ~probe.result.ok

\* the instant t lies behind issuedAt + validityDays days, in whole numbers
\* of any size
PastValidity(ticket, t) ==
    (t - ticket.creationDate.at - 1) \div HoursPerDay >= ticket.validityDays

\* C19: on a date that parses isExpired answers true if and only if
\* now > issuedAt + validityDays days, and a ticket found expired is found
\* expired at every later time
C19_ExpiredIffPastValidity ==
    (probe.op \in {"checked", "later"} /\ probe.ticket.creationDate.parsable) =>
        /\ probe.expired <=> PastValidity(probe.ticket, probe.instant)
        /\ (probe.op = "later" /\ probe.earlier) => probe.expired

\* a ticket of no validity whose date parses
ZeroDays(ticket) == ticket.creationDate.parsable /\ ticket.validityDays = 0

MatchesFormat(text) ==
    /\ Len(text) = 19
    /\ text[5] = Ascii.minus /\ text[8] = Ascii.minus /\ text[11] = Ascii.upperT
    /\ text[14] = Ascii.colon /\ text[17] = Ascii.colon
    /\ \A i \in (1..19) \ {5, 8, 11, 14, 17} : IsDigit(text[i])
    /\ numberAt(text, 6, 2) \in 1..12 /\ numberAt(text, 9, 2) \in 1..31
    /\ numberAt(text, 12, 2) \in 0..23 /\ numberAt(text, 15, 2) \in 0..59
    /\ numberAt(text, 18, 2) \in 0..59

\* C21: a ticket whose date text is not in the format YYYY-MM-DDTHH:MM:SS is
\* found expired and not valid at every time
C21_UnparsableDateIsExpired ==
    (probe.source = "date" /\ probe.op \in {"checked", "later"}
        /\ ~MatchesFormat(probe.text)) =>
        (probe.expired /\ ~probe.valid)

\* C22: isValid is false for an empty id and for a negative validityDays, at
\* every time; it is true for a non-empty id and validityDays >= 1 at every
\* time from issuedAt up to issuedAt + validityDays days
C22_IsValidWhenWellFormedAndUnexpired ==
    probe.op \in {"checked", "later"} =>
        /\ (probe.ticket.ticketId = <<>> \/ probe.ticket.validityDays < 0) => ~probe.valid
        /\ (probe.ticket.ticketId # <<>> /\ probe.ticket.validityDays >= 1
               /\ probe.ticket.creationDate.parsable
               /\ probe.ticket.creationDate.at <= probe.instant
               /\ ~PastValidity(probe.ticket, probe.instant)) => probe.valid

\* the handling of the r-th sale request has ended
SaleHandled(r) == r <= Len(saleTrail) /\ ~(tvm.pc = "calling" /\ tvm.req = r)

\* the published sale responses that answer the r-th sale request
SaleResponsesTo(r) == {i \in 1..Len(saleResponses) : saleResponses[i].req = r}

\* C23: a sale request makes at most one create call, which reaches the ledger
\* at most once, and once it is handled exactly one sale response is published
\* for it: a success, with the id and the token of a ticket of the registry,
\* if and only if the call came back with status 200, else an error
C23_OneCallOneResponse ==
    /\ creates <= Cardinality({r \in 1..Len(saleTrail) : saleTrail[r].calls = 1})
    /\ \A r \in 1..Len(saleTrail) :
          /\ saleTrail[r].calls <= 1
          /\ creates - saleTrail[r].createsBefore >= 0
          /\ ~SaleHandled(r) => SaleResponsesTo(r) = {}
          /\ SaleHandled(r) =>
                /\ Cardinality(SaleResponsesTo(r)) = 1
                /\ \A i \in SaleResponsesTo(r) :
                      /\ saleResponses[i].status \in {"success", "error"}
                      /\ (saleResponses[i].status = "success") <=>
                             (saleTrail[r].calls = 1 /\ saleTrail[r].status = 200)
                      /\ saleResponses[i].status = "success" =>
                             \E k \in 1..Len(tickets) :
                                 /\ saleResponses[i].ticketId = tickets[k].ticketId
                                 /\ saleResponses[i].ticketBase64 = toBase64(tickets[k])

\* C23 witness: one sale was republished as a success, and another ended as
\* an error because no answer came, although the ledger had made its ticket
C23_Witness ==
    /\ tvm.pc = "idle"
    /\ Len(tickets) = 2
    /\ \E i \in 1..Len(saleResponses) : saleResponses[i].status = "success"
    /\ \E r \in 1..Len(saleTrail) :
          /\ saleTrail[r].calls = 1 /\ saleTrail[r].status = 0
          /\ \E i \in SaleResponsesTo(r) : saleResponses[i].status = "error"

\* the payload is no JSON, or validityDays or lineNumber is missing or is
\* not a whole number
MalformedSale(payload) ==
    \/ ~payload.parses
    \/ payload.validityDays.type # "number"
    \/ payload.lineNumber.type # "number"

\* C24: a sale request with a malformed payload is answered with an error and
\* makes no create call
C24_MalformedSaleIsRejected ==
    \A r \in 1..Len(saleTrail) :
        MalformedSale(saleTrail[r].payload) =>
            /\ saleTrail[r].calls = 0
            /\ SaleResponsesTo(r) # {}
            /\ \A i \in SaleResponsesTo(r) : saleResponses[i].status = "error"

\* C25: a create request whose body is no JSON or lacks a field is answered
\* with status 400 and no ticket, and leaves the registry, the file and the
\* counter as they are
C25_MalformedCreateChangesNothing ==
    [][\A th \in Threads, body \in CreateBodies :
          (~(body.parses /\ body.hasFields) /\ CreateStart(th, body)) =>
              /\ Len(creplies') = Len(creplies) + 1
              /\ creplies'[Len(creplies')].status = 400
              /\ creplies'[Len(creplies')].ticketId = <<>>
              /\ UNCHANGED <<tickets, stockFile, ticketCounter>>]_vars

\* C25 witness: a create request was answered 400 by a ledger that holds a
\* ticket
C25_Witness ==
    /\ tickets # <<>>
    /\ ticketCounter = Len(tickets)
    /\ stockFile = saveTickets(tickets)
    /\ creplies # <<>>
    /\ creplies[Len(creplies)].status = 400

\* the r-th consumed message reached a decision
Decided(r) == r <= Len(trail) /\ trail[r].onlineRes # "none"

\* the consumed messages that reached a decision, in the order they came
DecidedRequests == SelectSeq([r \in 1..Len(trail) |-> r], Decided)

\* the mode and the verdict of the decision on the r-th consumed message: the
\* ledger's when it answered 200, else that of the expiry test
ModeOf(r) == IF trail[r].onlineRes = "s200" THEN "online" ELSE "offline"

VerdictOf(r) ==
    IF trail[r].onlineRes = "s200" THEN trail[r].ledgerValid
    ELSE ~isExpired(trail[r].ticket, trail[r].decidedAt)

RecordOf(r) ==
    ValidationRecord(trail[r].ticket.ticketId, trail[r].decidedAt, VerdictOf(r), ModeOf(r))

\* C26: the three counters never decrease; a step in which a request reaches
\* its decision adds one to totalProcessed and one to validCount when the
\* decision is valid, to invalidCount when it is not, and no other step
\* changes a counter; totalProcessed = validCount + invalidCount throughout
C26_CountersAddUp ==
    [][/\ totalProcessed = validCount + invalidCount
       /\ totalProcessed' = validCount' + invalidCount'
       /\ totalProcessed = Len(DecidedRequests)
       /\ totalProcessed' >= totalProcessed
       /\ validCount' >= validCount
       /\ invalidCount' >= invalidCount
       /\ IF \E r \in 1..Len(trail) : trail[r].onlineRes = "none" /\ trail'[r].onlineRes # "none"
          THEN /\ totalProcessed' = totalProcessed + 1
               /\ IF cur'.valid
                  THEN validCount' = validCount + 1 /\ invalidCount' = invalidCount
                  ELSE validCount' = validCount /\ invalidCount' = invalidCount + 1
          ELSE UNCHANGED <<totalProcessed, validCount, invalidCount>>]_vars

\* C26 witness: valid and invalid decisions were counted, online and offline
C26_Witness ==
    /\ validCount >= 2
    /\ invalidCount >= 2
    /\ totalProcessed > ReportEvery
    /\ \E i, j \in 1..Len(validationHistory) :
          /\ validationHistory[i].validationMode = "online"
          /\ validationHistory[j].validationMode = "offline"

\* C27: the history never holds more than 100 records, and after n decided
\* requests it holds the records of the last min(n, 100) of them, in the order
\* they were decided
C27_HistoryIsLastHundred ==
    LET n == Len(DecidedRequests)
        k == IF n < HistoryCap THEN n ELSE HistoryCap
    IN  /\ Len(validationHistory) <= HistoryCap
        /\ Len(validationHistory) = k
        /\ \A i \in 1..k : validationHistory[i] = RecordOf(DecidedRequests[n - k + i])

\* C27 witness: a 101st record was appended and the first one is gone
C27_Witness ==
    /\ totalProcessed = HistoryCap + 1
    /\ Len(validationHistory) = HistoryCap
    /\ validationHistory[1] = RecordOf(DecidedRequests[2])
    /\ validationHistory[1] # RecordOf(DecidedRequests[1])
    /\ validationHistory[HistoryCap] = RecordOf(DecidedRequests[HistoryCap + 1])

\* sendReport was called in the handling of the r-th consumed message
FlushTriggered(r) ==
    \/ \E i \in 1..Len(flushes) : flushes[i].req = r
    \/ gpc = "report" /\ cur.req = r

\* C28: sendReport is called in the handling of the requests that are the
\* 10th, 20th, 30th ... to be decided, once for each, and of no other
C28_FlushEveryTenth ==
    /\ \A i \in 1..Len(flushes) :
          /\ flushes[i].report.totalProcessed = ReportEvery * i
          /\ flushes[i].req = DecidedRequests[ReportEvery * i]
    /\ \A n \in 1..Len(DecidedRequests) :
          FlushTriggered(DecidedRequests[n]) <=> (n % ReportEvery = 0)
    /\ \A r \in 1..Len(trail) : FlushTriggered(r) => Decided(r)

\* C28 witness: seven reports were sent on a run in which some requests never
\* reached a decision, so that the request of the seventh is not the 70th
C28_Witness ==
    /\ Len(flushes) = 7
    /\ Len(DecidedRequests) < Len(trail)
    /\ flushes[7].req > ReportEvery * 7
    /\ gpc = "idle"

\* C29: the response of the request that triggers a report does not wait for
\* the report: while the Post of sendReport is under way the response is
\* already published
C29_ResponseDoesNotWaitForReport ==
    gpc = "report" => \E i \in 1..Len(responses) : responses[i].req = cur.req

\* C30: whatever the end of the Post of sendReport, the counters and the
\* history stay as recordValidation left them, and the request goes on to
\* publish one response with the valid, gateAction and validationMode of its
\* decision
C30_FailedFlushIsSwallowed ==
    [][/\ (gpc = "report" /\ gpc' # "report") =>
             /\ gpc' = "publish"
             /\ UNCHANGED <<totalProcessed, validCount, invalidCount, validationHistory,
                            cur, responses>>
       /\ (gpc = "publish" /\ gpc' # "publish") =>
             /\ Len(responses') = Len(responses) + 1
             /\ responses'[Len(responses')].req = cur.req
             /\ responses'[Len(responses')].valid = VerdictOf(cur.req)
             /\ responses'[Len(responses')].gateAction = GateAction(VerdictOf(cur.req))
             /\ responses'[Len(responses')].validationMode = ModeOf(cur.req)
             /\ UNCHANGED <<totalProcessed, validCount, invalidCount, validationHistory>>]_vars

\* C30 witness: reports ended without a connection, with a refusal and with a
\* timeout, and each of their requests has its response
C30_Witness ==
    /\ \A outcome \in {"unreachable", "refused", "timeout"} :
          \E i \in 1..Len(flushes) :
              /\ flushes[i].outcome = outcome
              /\ \E j \in 1..Len(responses) :
                    /\ responses[j].req = flushes[i].req
                    /\ responses[j].valid
                    /\ responses[j].gateAction = "OPEN"
    /\ totalProcessed > 4 * ReportEvery

\* C31: the report of the i-th call of sendReport carries the id of the gate,
\* the counters as they stand after the 10*i-th decision, and the records of
\* the last min(10, history size) decisions, the newest first
C31_ReportIsSnapshot ==
    \A i \in 1..Len(flushes) :
        LET report == flushes[i].report
            n == ReportEvery * i
            held == IF n < HistoryCap THEN n ELSE HistoryCap
            k == IF held < ReportRecent THEN held ELSE ReportRecent
            nValid == Cardinality({j \in 1..n : VerdictOf(DecidedRequests[j])})
        IN  /\ report.gateId = GateId
            /\ report.timestamp = trail[flushes[i].req].decidedAt
            /\ report.totalProcessed = n
            /\ report.validCount = nValid
            /\ report.invalidCount = n - nValid
            /\ Len(report.recent) = k
            /\ \A j \in 1..k : report.recent[j] = RecordOf(DecidedRequests[n + 1 - j])

\* C31 witness: a report was sent that counts valid and invalid decisions and
\* whose first record is that of the request that triggered it
C31_Witness ==
    \E i \in 1..Len(flushes) :
        /\ flushes[i].report.validCount > 0
        /\ flushes[i].report.invalidCount > 0
        /\ Len(flushes[i].report.recent) = ReportRecent
        /\ flushes[i].report.recent[1].ticketId = trail[flushes[i].req].ticket.ticketId
        /\ flushes[i].report.recent[1] # flushes[i].report.recent[ReportRecent]

\* C32: every report the ledger answered with 200 is in the report log
\* exactly once, and the log holds nothing but bodies as they were posted
C32_AckedReportStoredOnce ==
    /\ \A i \in 1..Len(flushes) :
          flushes[i].outcome = "delivered" =>
              Cardinality({j \in 1..Len(reports) : reports[j] = flushes[i].report}) = 1
    /\ \A j \in 1..Len(reports) :
          \/ \E i \in 1..Len(flushes) : reports[j] = flushes[i].report
          \/ \E th \in Threads : cthread[th].pc = "reportRespond" /\ reports[j] = cthread[th].body

\* C33: the handling of a sale request and the handling of a validation
\* request always end, and the service is back at its consume loop, though the
\* ledger takes no step
C33_HandlingTerminates ==
    /\ (tvm.pc = "calling") ~> (tvm.pc = "idle")
    /\ (gpc # "idle") ~> (gpc = "idle")

\* C33 witness: both services are back at their loops after a sale whose
\* create call the ledger took and never answered, and after a validation
\* request whose validate call and whose report the ledger never answered
C33_Witness ==
    /\ tvm.pc = "idle"
    /\ gpc = "idle"
    /\ creplies = <<>>
    /\ \E th \in Threads : cthread[th].pc = "store"
    /\ \E r \in 1..Len(saleTrail) : saleTrail[r].calls = 1 /\ saleTrail[r].status = 0
    /\ \E i \in 1..Len(flushes) :
          /\ flushes[i].outcome = "timeout"
          /\ trail[flushes[i].req].onlineRes = "transport"
          /\ \E j \in 1..Len(responses) : responses[j].req = flushes[i].req

\* the kinds of request whose token decodes
Decodable(kind) == kind \in {"online", "offline", "expired", "baddate"}

\* C34: neither service ever leaves its consume loop, and a request that
\* comes after faulty requests and failures of the ledger is handled as its
\* own content demands: a validation request with a token that decodes gets
\* one response with the verdict and the mode of its decision (of the ledger
\* when it answered, of the expiry test when it did not), a well-formed sale
\* request gets one response, a success when the ledger answered 200
C34_FaultsAreNotFatal ==
    /\ gpc \in {"idle", "online", "report", "publish"}
    /\ tvm.pc \in {"idle", "calling"}
    /\ (gpc = "idle" /\ received < plan.length) => ENABLED RunReceive
    /\ \A r \in 1..Len(trail) :
          (Decodable(PlannedKind(r)) /\ (r < received \/ gpc = "idle")) =>
              /\ Decided(r)
              /\ Cardinality(ResponsesTo(r)) = 1
              /\ \A i \in ResponsesTo(r) :
                    /\ responses[i].valid = (PlannedKind(r) = "offline")
                    /\ responses[i].validationMode =
                           (IF PlannedKind(r) = "online" THEN "online" ELSE "offline")
                    /\ responses[i].gateAction = GateAction(PlannedKind(r) = "offline")
    /\ \A r \in 1..Len(saleTrail) :
          SaleHandled(r) =>
              /\ Cardinality(SaleResponsesTo(r)) = 1
              /\ (~MalformedSale(saleTrail[r].payload)) => saleTrail[r].calls = 1
              /\ (saleTrail[r].calls = 1 /\ saleTrail[r].status = 200) =>
                    \A i \in SaleResponsesTo(r) : saleResponses[i].status = "success"

\* C34 witness: after a payload that is no JSON, a token that does not
\* decode, a date that does not parse and a ledger out of reach, the gate has
\* answered a request with the verdict of the ledger; after an unparsable
\* payload and a call the ledger did not answer, the vending machine has sold
\* a ticket
C34_Witness ==
    /\ \E r \in 1..Len(trail) :
          /\ PlannedKind(r) = "online"
          /\ \A kind \in {"garbage", "badtoken", "baddate", "offline"} :
                \E q \in 1..(r - 1) : PlannedKind(q) = kind
          /\ \E i \in ResponsesTo(r) : responses[i].validationMode = "online"
    /\ Len(saleTrail) = 3
    /\ ~saleTrail[1].payload.parses
    /\ saleTrail[2].calls = 1 /\ saleTrail[2].status = 0
    /\ saleTrail[3].status = 200
    /\ \E i \in SaleResponsesTo(3) : saleResponses[i].status = "success"

\* the requests of a run whose payload is JSON with a token that fails to
\* decode: a token outside the alphabet, and one whose text lacks a field
Undecodable(kind) == kind \in {"badtoken", "partial"}

\* C35: a request whose token fails to decode makes no validate call, runs no
\* expiry check and reaches no decision, and the history holds the records of
\* the decided requests only
C35_UndecodableIsDropped ==
    /\ \A r \in 1..Len(trail) :
          Undecodable(PlannedKind(r)) =>
              /\ ~trail[r].decoded
              /\ trail[r].onlineAttempts = 0
              /\ trail[r].offlineRuns = 0
              /\ ~Decided(r)
              /\ ~(gpc # "idle" /\ cur.req = r)
              /\ \A i \in 1..Len(validationHistory) :
                    validationHistory[i].ticketId # RunTicket(r, PlannedKind(r)).ticketId
    /\ vcall.state # "none" =>
          /\ ~Undecodable(PlannedKind(cur.req))
          /\ vcall.token = RunPayload(cur.req, PlannedKind(cur.req)).ticketBase64
    /\ totalProcessed = Len(DecidedRequests)
    /\ Len(validationHistory) = Len(DecidedRequests)
    /\ \A i \in 1..Len(validationHistory) :
          validationHistory[i] = RecordOf(DecidedRequests[i])

\* C35 witness: a token outside the alphabet and a token without a field
\* were consumed between requests that were decided online and offline
C35_Witness ==
    /\ gpc = "idle"
    /\ \E r, q \in 1..Len(trail) : PlannedKind(r) = "badtoken" /\ PlannedKind(q) = "partial"
    /\ \E i, j \in 1..Len(validationHistory) :
          /\ validationHistory[i].validationMode = "offline"
          /\ validationHistory[j].validationMode = "offline" /\ ~validationHistory[j].valid
    /\ Len(validationHistory) >= 3
\* the token without what was put behind it
Stem(token, how) == SubSeq(token, 1, Len(token) - Len(Suffix(how)))

\* C36: base64Decode reads up to the first byte that is no symbol, '='
\* included, and nothing behind it: a token with such a byte and anything
\* behind it put at its end decodes to what the token alone decodes to, the
\* same ticket or the same failure
C36_SuffixIsIgnored ==
    (probe.op = "decoded" /\ probe.tamper \in {"append", "pad", "tail"}) =>
        /\ base64DecodeText(probe.token)
              = base64DecodeText(Stem(probe.token, probe.tamper))
        /\ probe.result = fromBase64Text(Stem(probe.token, probe.tamper))

\* a ticket's token with a foreign byte and four symbols behind it has been
\* decoded to the ticket
C36_Witness ==
    /\ probe.op = "decoded" /\ probe.tamper = "tail" /\ probe.source = "ticket"
    /\ probe.result.ok
    /\ probe.result.ticket = probe.ticket

\* the tokens a gate can send that decode to the id of the token in flight
SameIdTokens ==
    {p.ticketBase64 : p \in {q \in Payloads :
        /\ q.parses /\ q.hasToken /\ fromBase64(q.ticketBase64).ok
        /\ fromBase64(q.ticketBase64).ticket.ticketId
               = fromBase64(vcall.token).ticket.ticketId}}

\* C37: the valid of a 200 answer of validate on a registered id is that of
\* every other token of the same id validated on the same registry at the
\* same time, whatever creationDate and validityDays the tokens carry
C37_TokenFieldsDoNotDecide ==
    (vcall.state = "answered" /\ vcall.res.status = 200 /\ AnswerIdKnown) =>
        \A token \in SameIdTokens :
            handleTicketValidation(token, FALSE, SubSeq(tickets, 1, vcall.res.regLen),
                                   vcall.res.evalAt).valid
                = vcall.res.valid

\* the tickets the ledger has put into the registry and the file for the
\* create call of the r-th sale request: those its handler has inserted and
\* not yet answered for, and those it has answered with
IssuedFor(r) ==
    {cthread[th].ticket : th \in {o \in Threads :
        /\ cthread[o].pc = "respond"
        /\ cthread[o].call = saleTrail[r].createsBefore + 1}}
    \cup {k \in {tickets[n] : n \in 1..Len(tickets)} :
            \E i \in 1..Len(creplies) :
                /\ creplies[i].status = 200
                /\ creplies[i].call = saleTrail[r].createsBefore + 1
                /\ creplies[i].ticketBase64 = toBase64(k)}

\* C38: a sale request that was answered with status error has no ticket in
\* the registry and the file of the ledger that was created for it
C38_ErrorMeansNoTicket ==
    \A r \in 1..Len(saleTrail) :
        (saleTrail[r].calls = 1
            /\ \E i \in SaleResponsesTo(r) : saleResponses[i].status = "error")
        => IssuedFor(r) = {}

\* the request the gate is handling, 0 when it is at consume_message
InHand == IF gpc \in {"online", "report", "publish"} THEN cur.req ELSE 0

\* the handling of the r-th consumed message has come to its end: nothing was
\* done for a message that did not decode, and one that did was decided,
\* recorded, reported when its record was a tenth, and answered once
Finished(r) ==
    IF ~trail[r].decoded
    THEN ~Decided(r) /\ ResponsesTo(r) = {}
    ELSE /\ Decided(r)
         /\ FlushTriggered(r) => \E k \in 1..Len(flushes) : flushes[k].req = r
         /\ Cardinality(ResponsesTo(r)) = 1
         /\ \A i \in ResponsesTo(r) :
               /\ responses[i].valid = VerdictOf(r)
               /\ responses[i].validationMode = ModeOf(r)

\* C39: the gate handles one request at a time, in the order of consumption:
\* the request in hand is the last one consumed, every request consumed before
\* it is finished (decided, recorded, reported, answered) and it alone is
\* not; each decision was counted once, and the responses are published in the
\* order in which their requests were consumed
C39_OneRequestAtATime ==
    /\ Len(trail) = received
    /\ InHand \in {0, received}
    /\ \A r \in 1..received : r # InHand => Finished(r)
    /\ InHand # 0 => ResponsesTo(InHand) = {}
    /\ totalProcessed = Len(DecidedRequests)
    /\ \A i, j \in 1..Len(responses) : i < j => responses[i].req < responses[j].req

\* C39 witness: the gate waits for the ledger's answer on a request, while
\* the request before it brought a report and has been answered
C39_Witness ==
    /\ gpc = "online"
    /\ received > ReportEvery
    /\ FlushTriggered(received - 1)
    /\ ResponsesTo(received - 1) # {}
    /\ Len(responses) = Len(DecidedRequests)

\* C40: when isExpired has answered false for a ticket, it answers false at
\* the same instant for the ticket with any larger validityDays and the same
\* creationDate
C40_ExpiryMonotoneInDays ==
    (probe.op \in {"checked", "later"} /\ probe.ticket.creationDate.parsable
        /\ ~probe.expired) =>
        \A longer \in {v \in ExpiryDays : v > probe.ticket.validityDays} :
            \A outcome \in isExpiredOutcomes([probe.ticket EXCEPT !.validityDays = longer],
                                             probe.instant) :
                ~outcome

====
